---- MODULE Spec2Model ----
(***************************************************************************)
(* A model of the usbd package: the device manager (usbd/device.py), the   *)
(* descriptor builder and the producer/consumer buffer (usbd/utils.py) and *)
(* the HID interface (usbd/hid.py).                                        *)
(*                                                                         *)
(* Python values are modelled as follows: None, the sentinel True and a    *)
(* completion callback stored in _ep_cbs are the strings "None", "True"    *)
(* and "cb"; a dict is a function whose DOMAIN is its key set; an          *)
(* interface object is its position (1..) in the *itfs argument of init;   *)
(* bytes are the integers 0..255.  A leading underscore of a Python name   *)
(* is dropped (_eps is eps, _ep_cbs is ep_cbs, _n is buf_n).               *)
(***************************************************************************)
EXTENDS Integers, Sequences, FiniteSets, TLC

\* ------------------------------------------------------------------------
\* Bounds of the model
\* ------------------------------------------------------------------------

\* Greatest number of USB interface numbers the objects passed to init
\* occupy together.
MaxItfs == 3

\* Length of the Buffer under test (the argument of Buffer(length)).
BufLen == 4

\* Greatest number of bytes the producer commits in one run.
MaxBytes == 6

\* Greatest number of extra descriptors a HIDInterface is constructed with.
MaxExtra == 2

\* Length of the longest set_report_buf a HIDInterface is constructed with.
MaxReportLen == 8

\* The length of the bytearray a Descriptor under test is given, and the
\* number of pack, pack_into and append calls made on it.
DescLen == 12

MaxDescOps == 4

\* ------------------------------------------------------------------------
\* Program constants
\* ------------------------------------------------------------------------

EP_IN_FLAG == 128
STD_DESC_CONFIG_LEN == 9
STD_DESC_CONFIG_TYPE == 2
STD_DESC_INTERFACE_LEN == 9
STD_DESC_INTERFACE_TYPE == 4
STD_DESC_ENDPOINT_LEN == 7
STD_DESC_ENDPOINT_TYPE == 5
ITF_ASSOCIATION_DESC_TYPE == 11
DESC_OFFSET_LEN == 0
DESC_OFFSET_TYPE == 1
DESC_OFFSET_INTERFACE_NUM == 2
DESC_OFFSET_ENDPOINT_NUM == 2
INTERFACE_CLASS_VENDOR == 255
DESC_HID_TYPE == 33
INTERFACE_CLASS_HID == 3
DESC_REPORT_TYPE == 34
DESC_PHYSICAL_TYPE == 35
REQ_CONTROL_GET_REPORT == 1
REQ_CONTROL_GET_IDLE == 2
REQ_CONTROL_GET_PROTOCOL == 3
REQ_CONTROL_GET_DESCRIPTOR == 6
REQ_CONTROL_SET_REPORT == 9
REQ_CONTROL_SET_IDLE == 10
REQ_CONTROL_SET_PROTOCOL == 11
STAGE_SETUP == 1
STAGE_DATA == 2
STAGE_ACK == 3
REQ_TYPE_STANDARD == 0
REQ_TYPE_CLASS == 1
REQ_TYPE_VENDOR == 2
REQ_RECIPIENT_DEVICE == 0
REQ_RECIPIENT_INTERFACE == 1
REQ_RECIPIENT_ENDPOINT == 2

\* hid.py: the default timeout_ms of send_report and the time it sleeps
\* between two looks at the endpoint.
SEND_REPORT_TIMEOUT_MS == 100
SEND_REPORT_SLEEP_MS == 50

\* ------------------------------------------------------------------------
\* Small helpers
\* ------------------------------------------------------------------------

Max(a, b) == IF a >= b THEN a ELSE b
Min(a, b) == IF a <= b THEN a ELSE b

RECURSIVE SumSeq(_)
SumSeq(s) == IF s = <<>> THEN 0 ELSE Head(s) + SumSeq(Tail(s))

RECURSIVE Flatten(_)
Flatten(ss) == IF ss = <<>> THEN <<>> ELSE Head(ss) \o Flatten(Tail(ss))

Zeros(n) == [i \in 1..n |-> 0]

\* struct.pack of one unsigned field of `w` bytes, little-endian.
PackField(w, v) == [i \in 1..w |-> (v \div (256 ^ (i - 1))) % 256]

\* struct.pack(fmt, *args): fmt is the sequence of the field widths
\* ("<BBHB" is <<1, 1, 2, 1>>).
RECURSIVE StructPack(_, _)
StructPack(fmt, args) ==
    IF fmt = <<>> THEN <<>>
    ELSE PackField(Head(fmt), Head(args)) \o StructPack(Tail(fmt), Tail(args))

\* struct.calcsize(fmt)
CalcSize(fmt) == SumSeq(fmt)

\* Python's  b[lo:hi] = a  on a bytearray (slice bounds clamp to len(b)).
SliceAssign(b, lo, hi, a) ==
    LET l == Min(lo, Len(b))
        h == Max(l, Min(hi, Len(b)))
    IN  SubSeq(b, 1, l) \o a \o SubSeq(b, h + 1, Len(b))

\* ------------------------------------------------------------------------
\* utils.Descriptor: [hasbuf, b, o, err].  hasbuf = FALSE is b = None (the
\* dry run); err records a struct.pack_into that did not fit the buffer.
\* ------------------------------------------------------------------------

Descriptor(hasbuf, b) == [hasbuf |-> hasbuf, b |-> b, o |-> 0, err |-> FALSE]

\* `if self.b:` -- None and an empty bytearray are both false.
DescTruthy(d) == d.hasbuf /\ Len(d.b) > 0

\* Descriptor.pack_into that always leaves the cursor at the end of what
\* it wrote.
pack_into_CursorAtEnd(d, fmt, offs, args) ==
    LET end == offs + CalcSize(fmt)
        fits == end <= Len(d.b)
    IN  [d EXCEPT
           !.b = IF DescTruthy(d) /\ fits
                 THEN SliceAssign(d.b, offs, end, StructPack(fmt, args))
                 ELSE d.b,
           !.err = d.err \/ (DescTruthy(d) /\ ~fits),
           !.o = IF DescTruthy(d) /\ ~fits THEN d.o ELSE end]

\* Descriptor.pack_into.  struct.pack_into raises when the data does not
\* fit the buffer (utils.py:86), before the cursor is assigned: err is
\* set and b and o stay as they were.
pack_into(d, fmt, offs, args) ==
    LET end == offs + CalcSize(fmt)
        fits == end <= Len(d.b)
    IN  [d EXCEPT
           !.b = IF DescTruthy(d) /\ fits
                 THEN SliceAssign(d.b, offs, end, StructPack(fmt, args))
                 ELSE d.b,
           !.err = d.err \/ (DescTruthy(d) /\ ~fits),
           !.o = IF DescTruthy(d) /\ ~fits THEN d.o ELSE Max(d.o, end)]

pack(d, fmt, args) == pack_into(d, fmt, d.o, args)

append(d, a) ==
    [d EXCEPT
       !.b = IF DescTruthy(d) THEN SliceAssign(d.b, d.o, d.o + Len(a), a) ELSE d.b,
       !.o = d.o + Len(a)]

\* No Descriptor was made yet.  Else real is Descriptor(bytearray(..)), dry
\* is Descriptor(None), n counts the calls made on both, and last is the
\* last of them: its name, the offset it wrote at and the length of what
\* it wrote.
NoDesc == [made |-> FALSE, real |-> Descriptor(FALSE, <<>>), dry |-> Descriptor(FALSE, <<>>), n |-> 0, last |-> [op |-> "none", offs |-> 0, size |-> 0]]

\* The data lies within the buffer, so struct.pack_into does not raise
\* and the slice assignment keeps the buffer's length.
Fits(d, end) == ~DescTruthy(d) \/ end <= Len(d.b)

\* Descriptor.interface
interface(d, bInterfaceNumber, bNumEndpoints, bInterfaceClass, bInterfaceSubClass, bInterfaceProtocol, iInterface) ==
    pack(d, <<1, 1, 1, 1, 1, 1, 1, 1, 1>>,
         <<STD_DESC_INTERFACE_LEN, STD_DESC_INTERFACE_TYPE, bInterfaceNumber, 0,
           bNumEndpoints, bInterfaceClass, bInterfaceSubClass,
           bInterfaceProtocol, iInterface>>)

\* Descriptor.endpoint; bmAttributes is "control", "bulk" or "interrupt".
endpoint(d, bEndpointAddress, bmAttributes, wMaxPacketSize, bInterval) ==
    LET attr == IF bmAttributes = "control" THEN 0
                ELSE IF bmAttributes = "bulk" THEN 2 ELSE 3
    IN  pack(d, <<1, 1, 1, 1, 2, 1>>,
             <<STD_DESC_ENDPOINT_LEN, STD_DESC_ENDPOINT_TYPE, bEndpointAddress,
               attr, wMaxPacketSize, bInterval>>)

\* Descriptor.interface_assoc
interface_assoc(d, bFirstInterface, bInterfaceCount, bFunctionClass, bFunctionSubClass, bFunctionProtocol, iFunction) ==
    pack(d, <<1, 1, 1, 1, 1, 1, 1, 1>>,
         <<8, ITF_ASSOCIATION_DESC_TYPE, bFirstInterface, bInterfaceCount,
           bFunctionClass, bFunctionSubClass, bFunctionProtocol, iFunction>>)

\* ------------------------------------------------------------------------
\* Interface objects.  An object is described by its class and constructor
\* arguments (its "kind"):
\*   cls      "HID" for hid.HIDInterface, "Generic" for a USBInterface
\*            subclass written with the Descriptor helpers;
\*   iad      (Generic) the object prepends an Interface Association
\*            Descriptor to its interfaces;
\*   itf_eps  (Generic) per USB interface, the endpoints it declares, each
\*            <<offset from ep_num, is IN>>;
\*   protocol, report_len, extra, interface_str   (HID) constructor arguments.
\* ------------------------------------------------------------------------

HIDKind == [cls |-> "HID", iad |-> FALSE, itf_eps |-> << << <<0, TRUE>> >> >>, protocol |-> 2, report_len |-> 52, extra |-> <<>>, interface_str |-> "Mouse"]

\* Two USB interfaces without an association descriptor (as MIDI).
MultiKind == [cls |-> "Generic", iad |-> FALSE, itf_eps |-> << << <<0, TRUE>> >>, << <<1, FALSE>> >> >>, protocol |-> 0, report_len |-> 0, extra |-> <<>>, interface_str |-> "None"]

\* Two USB interfaces inside an association descriptor (as CDC).
AssocKind == [cls |-> "Generic", iad |-> TRUE, itf_eps |-> << << <<0, TRUE>> >>, << <<1, FALSE>> >> >>, protocol |-> 0, report_len |-> 0, extra |-> <<>>, interface_str |-> "None"]

\* One USB interface and no endpoint: the host talks to it with control
\* transfers only; num_eps() is USBInterface's, 0 (device.py:389-399).
CtrlKind == [cls |-> "Generic", iad |-> FALSE, itf_eps |-> << <<>> >>, protocol |-> 0, report_len |-> 0, extra |-> <<>>, interface_str |-> "None"]

Kinds == {HIDKind, MultiKind, AssocKind, CtrlKind}


\* USBInterface.num_itfs / overrides
num_itfs(k) == IF k.cls = "HID" THEN 1 ELSE Len(k.itf_eps)

\* USBInterface.num_eps / overrides: endpoint numbers used, direction not counted.
num_eps(k) == IF k.cls = "HID" THEN 1 ELSE Cardinality({Flatten(k.itf_eps)[i][1] : i \in 1..Len(Flatten(k.itf_eps))})

\* The *itfs argument lists tried: every non-empty list of objects that
\* occupy at most MaxItfs interface numbers together.
Layouts == {ks \in UNION {[1..n -> Kinds] : n \in 1..MaxItfs} : SumSeq([i \in 1..Len(ks) |-> num_itfs(ks[i])]) <= MaxItfs}

\* Endpoint address of an endpoint declaration <<offset, is IN>>.
EpAddr(ep_num, e) == ep_num + e[1] + (IF e[2] THEN EP_IN_FLAG ELSE 0)

\* The state of an interface object: USBInterface._open, the endpoint
\* addresses saved by desc_cfg (HIDInterface._int_ep), and the HID fields.
\* idle_rate = -1 stands for the attribute not being set yet.
NewObj(k) == [open |-> FALSE, eps |-> <<>>, protocol |-> k.protocol, idle_rate |-> -1]

\* HIDInterface.get_hid_descriptor(desc)
RECURSIVE PackExtra(_, _)
PackExtra(d, extra) ==
    IF extra = <<>> THEN d
    ELSE PackExtra(pack(d, <<1, 2>>, <<Head(extra)[1], Head(extra)[2]>>), Tail(extra))

\* get_hid_descriptor that counts the extra descriptors only, without the
\* report descriptor.
get_hid_descriptor_CountExtrasOnly(d, k) ==
    LET l == 9 + 3 * Len(k.extra)
        d1 == pack(d, <<1, 1, 2, 1, 1, 1, 2>>, <<l, DESC_HID_TYPE, 273, 0, Len(k.extra), 34, k.report_len>>)
    IN  PackExtra(d1, k.extra)

get_hid_descriptor(d, k) ==
    LET l == 9 + 3 * Len(k.extra)
        d1 == pack(d, <<1, 1, 2, 1, 1, 1, 2>>, <<l, DESC_HID_TYPE, 273, 0, Len(k.extra) + 1, 34, k.report_len>>)
    IN  PackExtra(d1, k.extra)

\* HIDInterface.desc_cfg: returns the descriptor, the string list and the
\* object state it leaves.
HID_desc_cfg(d, k, o, itf_num, ep_num, strs) ==
    LET d1 == interface(d, itf_num, 1, INTERFACE_CLASS_HID, 0, o.protocol, IF k.interface_str # "None" THEN Len(strs) ELSE 0)
        strs1 == IF k.interface_str # "None" THEN Append(strs, k.interface_str) ELSE strs
        d2 == get_hid_descriptor(d1, k)
        int_ep == ep_num + EP_IN_FLAG
        d3 == endpoint(d2, int_ep, "interrupt", 8, 8)
    IN  [desc |-> d3, strs |-> strs1, obj |-> [o EXCEPT !.eps = <<int_ep>>, !.idle_rate = 0, !.protocol = 0]]

\* desc_cfg of a Generic object: optional association descriptor, then each
\* interface descriptor followed by its endpoint descriptors.
RECURSIVE GenericEps(_, _, _)
GenericEps(d, eps, ep_num) ==
    IF eps = <<>> THEN d
    ELSE GenericEps(endpoint(d, EpAddr(ep_num, Head(eps)), "bulk", 64, 1), Tail(eps), ep_num)

RECURSIVE GenericItfs(_, _, _, _)
GenericItfs(d, itf_eps, itf_num, ep_num) ==
    IF itf_eps = <<>> THEN d
    ELSE GenericItfs(GenericEps(interface(d, itf_num, Len(Head(itf_eps)), INTERFACE_CLASS_VENDOR, 0, 0, 0), Head(itf_eps), ep_num), Tail(itf_eps), itf_num + 1, ep_num)

Generic_desc_cfg(d, k, o, itf_num, ep_num, strs) ==
    LET d1 == IF k.iad THEN interface_assoc(d, itf_num, Len(k.itf_eps), INTERFACE_CLASS_VENDOR, 0, 0, 0) ELSE d
        d2 == GenericItfs(d1, k.itf_eps, itf_num, ep_num)
        saved == [i \in 1..Len(Flatten(k.itf_eps)) |-> EpAddr(ep_num, Flatten(k.itf_eps)[i])]
    IN  [desc |-> d2, strs |-> strs, obj |-> [o EXCEPT !.eps = saved]]

desc_cfg(d, k, o, itf_num, ep_num, strs) ==
    IF k.cls = "HID" THEN HID_desc_cfg(d, k, o, itf_num, ep_num, strs)
    ELSE Generic_desc_cfg(d, k, o, itf_num, ep_num, strs)

\* ------------------------------------------------------------------------
\* The low-level driver's built-in driver metadata (machine.USBDevice
\* .BUILTIN_NONE / .BUILTIN_DEFAULT): reserved interface, endpoint and
\* string counts and the built-in configuration descriptor.
\* ------------------------------------------------------------------------

ConfigHeader == <<9, 2, 9, 0, 0, 1, 0, 128, 50>>

BUILTIN_NONE == [itf_max |-> 0, ep_max |-> 0, str_max |-> 1, desc_cfg |-> ConfigHeader]

BuiltinContent == GenericItfs(interface_assoc(Descriptor(TRUE, Zeros(47)), 0, 2, 2, 2, 0, 0), << << <<1, TRUE>> >>, << <<2, FALSE>>, <<2, TRUE>> >> >>, 0, 0).b

BUILTIN_DEFAULT == [itf_max |-> 2, ep_max |-> 3, str_max |-> 5, desc_cfg |-> ConfigHeader \o BuiltinContent]

\* ------------------------------------------------------------------------
\* _USBDevice.init
\* ------------------------------------------------------------------------

\* `while len(strs) < builtin.str_max: strs.append(None)`
PadStrs(strs, n) == strs \o [i \in 1..(n - Len(strs)) |-> "None"]

\* The size-only pass (device.py:146-149): every desc_cfg is called with
\* the dummy arguments (desc, 0, 0, []).
SizeStep(st, i, r) == [st EXCEPT !.desc = r.desc, !.objs[i] = r.obj]

RECURSIVE SizePass(_, _, _)
SizePass(st, ks, i) ==
    IF i > Len(ks) THEN st
    ELSE SizePass(SizeStep(st, i, desc_cfg(st.desc, ks[i], st.objs[i], 0, 0, <<>>)), ks, i + 1)

\* `self._itfs[itf_num] = itf` for num_itfs() consecutive numbers.
RegisterItfs(itfs, itf_num, n, i) == [x \in (DOMAIN itfs) \cup (itf_num..(itf_num + n - 1)) |-> IF x \in itf_num..(itf_num + n - 1) THEN i ELSE itfs[x]]

\* One round of the content pass's loop that does not advance ep_num.
ContentStep_SameEpNum(st, k, i, r) ==
    [desc |-> r.desc, strs |-> r.strs,
     objs |-> [st.objs EXCEPT ![i] = r.obj],
     itfs |-> RegisterItfs(st.itfs, st.itf_num, num_itfs(k), i),
     itf_num |-> st.itf_num + num_itfs(k),
     ep_num |-> st.ep_num,
     handed |-> Append(st.handed, <<st.itf_num, st.ep_num>>)]

\* One round of the content pass's loop (device.py:156-162); r is what
\* desc_cfg returned.  handed lists the <<itf_num, ep_num>> each desc_cfg
\* was called with.
ContentStep(st, k, i, r) ==
    [desc |-> r.desc, strs |-> r.strs,
     objs |-> [st.objs EXCEPT ![i] = r.obj],
     itfs |-> RegisterItfs(st.itfs, st.itf_num, num_itfs(k), i),
     itf_num |-> st.itf_num + num_itfs(k),
     ep_num |-> st.ep_num + num_eps(k),
     handed |-> Append(st.handed, <<st.itf_num, st.ep_num>>)]

\* The content pass (device.py:153-162).
RECURSIVE ContentPass(_, _, _)
ContentPass(st, ks, i) ==
    IF i > Len(ks) THEN st
    ELSE ContentPass(ContentStep(st, ks[i], i, desc_cfg(st.desc, ks[i], st.objs[i], st.itf_num, st.ep_num, st.strs)), ks, i + 1)

\* The header patch and what init hands to the low-level driver
\* (device.py:169-202), with max_power_ma = 50 and no configuration string.
init_finish(dry, real, max_power_ma) ==
    [desc |-> pack_into(real.desc, <<1, 1, 2, 1, 1, 1, 1, 1>>, 0, <<STD_DESC_CONFIG_LEN, STD_DESC_CONFIG_TYPE, Len(real.desc.b), real.itf_num, 1, 0, 128 + (IF max_power_ma # 0 THEN 0 ELSE 64), max_power_ma>>),
     dry_o |-> dry.desc.o, strs |-> real.strs, objs |-> real.objs, itfs |-> real.itfs, itf_num |-> real.itf_num, ep_num |-> real.ep_num, handed |-> real.handed]

\* The real Descriptor and the content pass (device.py:153-162); dry is
\* the state the size pass left.
init_content(ks, builtin, initial_cfg, dry) ==
    init_finish(dry, ContentPass([desc |-> append(Descriptor(TRUE, Zeros(dry.desc.o)), initial_cfg),
                                  strs |-> PadStrs(<<"None", "None", "None", "None">>, builtin.str_max),
                                  objs |-> dry.objs, itfs |-> <<>>, handed |-> <<>>,
                                  itf_num |-> builtin.itf_max, ep_num |-> Max(builtin.ep_max, 1)], ks, 1), 50)

\* init from the size pass on (device.py:140-202).
init_builtin(ks, os, builtin, initial_cfg) ==
    init_content(ks, builtin, initial_cfg, SizePass([desc |-> append(Descriptor(FALSE, <<>>), initial_cfg), objs |-> os], ks, 1))

\* `builtin.desc_cfg or (b"\x00" * _STD_DESC_CONFIG_LEN)`
InitialCfg(builtin) == IF Len(builtin.desc_cfg) > 0 THEN builtin.desc_cfg ELSE Zeros(STD_DESC_CONFIG_LEN)

\* _USBDevice.init(*itfs, builtin_drivers=...) with the other arguments at
\* their defaults.  `os` are the objects' states before the call.  The
\* result: desc, the Descriptor whose b goes to the low-level driver;
\* dry_o, the length the size pass computed; strs; objs; itfs (_itfs);
\* itf_num and ep_num as the loop left them; handed, the <<itf_num,
\* ep_num>> each object's desc_cfg got in the content pass.
init(ks, os, builtin_drivers) ==
    init_builtin(ks, os, IF builtin_drivers THEN BUILTIN_DEFAULT ELSE BUILTIN_NONE, InitialCfg(IF builtin_drivers THEN BUILTIN_DEFAULT ELSE BUILTIN_NONE))

\* The low-level driver object (machine.USBDevice): whether it is active,
\* the calls init made on it, each with the active state it was made in,
\* and stale: the transfers a bus reset cancelled whose completion event
\* may still arrive, as <<endpoint address, the done_cb they were
\* submitted with>>.
NoUsbd == [active |-> FALSE, log |-> <<>>, stale |-> {}]

UsbdCall(U, name, value, cfg, strs) == [call |-> name, value |-> value, was_active |-> U.active, cfg |-> cfg, strs |-> strs]

\* _usbd.active(value)
usbd_active(U, value) == [U EXCEPT !.active = value, !.log = Append(U.log, UsbdCall(U, "active", value, <<>>, <<>>))]

\* The descriptors are built (device.py:92-186); the driver is not called.
usbd_build(U) == [U EXCEPT !.log = Append(U.log, UsbdCall(U, "build", FALSE, <<>>, <<>>))]

\* _usbd.config(desc_dev, desc.b, strs, self._open_itf_cb, self._reset_cb,
\* self._control_xfer_cb, self._xfer_cb)
usbd_config(U, cfg, strs) == [U EXCEPT !.log = Append(U.log, UsbdCall(U, "config", FALSE, cfg, strs))]

\* init that leaves out _usbd.active(False).
init_usbd_NoDeactivate(U, r, active) == usbd_active(usbd_config(usbd_build(U), r.desc.b, r.strs), active)

\* The calls init makes on the low-level driver, in order; r is what the
\* descriptor building gave.
init_usbd(U, r, active) == usbd_active(usbd_config(usbd_build(usbd_active(U, FALSE)), r.desc.b, r.strs), active)

\* ------------------------------------------------------------------------
\* The device manager's handlers, as operators on the record
\*   S = [eps, ep_cbs, objs, itfs, inflight, trace, exc, ret]
\* eps, ep_cbs, itfs: the dicts _eps, _ep_cbs, _itfs; objs: the interface
\* objects; inflight: per endpoint address, the transfers the low-level
\* driver has accepted and not completed (each recorded as the done_cb its
\* submit gave); trace: what the running handler did, in order; exc: the
\* exception propagating, "none" if none; ret: the value the function
\* last run returned.
\* ------------------------------------------------------------------------

\* One entry of the trace: what happened, on which endpoint address or
\* interface object, with which result and byte count, and the two tables
\* as they were at that moment.
Log(S, ev, ep, itf, res, n) == [S EXCEPT !.trace = Append(S.trace, [ev |-> ev, ep |-> ep, itf |-> itf, res |-> res, n |-> n, eps |-> S.eps, cbs |-> S.ep_cbs])]

\* dict.get(key, None) on _ep_cbs
CbsGet(cbs, ep) == IF ep \in DOMAIN cbs THEN cbs[ep] ELSE "None"

\* dict[key] = value
DictSet(f, key, v) == [x \in (DOMAIN f) \cup {key} |-> IF x = key THEN v ELSE f[x]]

\* Python truth of an _ep_cbs entry: None is false, True and a function are not.
Truthy(v) == v # "None"

\* The endpoints with a pending-transfer entry set.
PendingEps(cbs) == {e \in DOMAIN cbs : Truthy(cbs[e])}

\* The completion callback given to submit_xfer runs.
call_done_cb(S, ep_addr, result, xferred_bytes) ==
    Log(S, "done_cb", ep_addr, 0, result, xferred_bytes)

\* `if callable(cb): cb(ep_addr, result, xferred_bytes)`
call_if_callable(cb, S, ep_addr, result, xferred_bytes) ==
    IF cb = "cb" THEN call_done_cb(S, ep_addr, result, xferred_bytes) ELSE S

\* _USBDevice._xfer_cb
USBDevice_xfer_cb(S, ep_addr, result, xferred_bytes) ==
    call_if_callable(CbsGet(S.ep_cbs, ep_addr), Log([S EXCEPT !.ep_cbs = DictSet(S.ep_cbs, ep_addr, "None")], "clear", ep_addr, 0, 0, 0), ep_addr, result, xferred_bytes)

\* machine.USBDevice.submit_xfer, the low-level driver: it accepts the
\* transfer and returns True ("accepted"), accepts it and completes it
\* before returning True ("sync"), rejects it by returning False
\* ("refused"), or rejects it with an OSError ("error").  The driver records
\* what it holds whatever it already holds on that endpoint; done_cb, which
\* the driver never sees, is recorded with the transfer to tell later which
\* callback its completion owes.
usbd_submit_xfer(S, ep_addr, done_cb, outcome, result, xferred_bytes) ==
    IF outcome = "error" THEN [Log(S, "usbd_submit", ep_addr, 0, 0, 0) EXCEPT !.exc = "OSError"]
    ELSE IF outcome = "refused" THEN [Log(S, "usbd_submit", ep_addr, 0, 0, 0) EXCEPT !.ret = "False"]
    ELSE IF outcome = "sync" THEN [USBDevice_xfer_cb(Log(S, "usbd_submit", ep_addr, 0, 0, 0), ep_addr, result, xferred_bytes) EXCEPT !.ret = "True"]
    ELSE [Log(S, "usbd_submit", ep_addr, 0, 0, 0) EXCEPT !.inflight[ep_addr] = Append(@, done_cb), !.ret = "True"]

\* `self._ep_cbs[ep_addr] = done_cb or True`
Mark(S, ep_addr, done_cb) ==
    IF S.exc # "none" THEN S
    ELSE Log([S EXCEPT !.ep_cbs[ep_addr] = IF done_cb = "cb" THEN "cb" ELSE "True"], "mark", ep_addr, 0, 0, 0)

\* _USBDevice._submit_xfer with the pending check left out.
USBDevice_submit_xfer_NoPendingCheck(S, ep_addr, done_cb, outcome, result, xferred_bytes) ==
    IF ep_addr \notin DOMAIN S.eps THEN [S EXCEPT !.exc = "ValueError"]
    ELSE usbd_submit_xfer(Mark(S, ep_addr, done_cb), ep_addr, done_cb, outcome, result, xferred_bytes)

\* _USBDevice._submit_xfer with the entry written after the low-level
\* submit returned.
USBDevice_submit_xfer_MarkAfter(S, ep_addr, done_cb, outcome, result, xferred_bytes) ==
    IF ep_addr \notin DOMAIN S.eps THEN [S EXCEPT !.exc = "ValueError"]
    ELSE IF Truthy(S.ep_cbs[ep_addr]) THEN [S EXCEPT !.exc = "xfer_pending"]
    ELSE Mark(usbd_submit_xfer(S, ep_addr, done_cb, outcome, result, xferred_bytes), ep_addr, done_cb)

\* _USBDevice._submit_xfer
USBDevice_submit_xfer(S, ep_addr, done_cb, outcome, result, xferred_bytes) ==
    IF ep_addr \notin DOMAIN S.eps THEN [S EXCEPT !.exc = "ValueError"]
    ELSE IF Truthy(S.ep_cbs[ep_addr]) THEN [S EXCEPT !.exc = "xfer_pending"]
    ELSE usbd_submit_xfer(Mark(S, ep_addr, done_cb), ep_addr, done_cb, outcome, result, xferred_bytes)

\* USBInterface.submit_xfer without the test of _open.
\* _USBDevice._xfer_cb that calls the callback first and clears the entry
\* afterwards.
USBDevice_xfer_cb_resubmitting_ClearsLast(S, ep_addr, result, xferred_bytes, next_cb, outcome) ==
    LET cb == CbsGet(S.ep_cbs, ep_addr)
        R == IF cb = "cb" THEN USBDevice_submit_xfer(call_done_cb(S, ep_addr, result, xferred_bytes), ep_addr, next_cb, outcome[1], outcome[2], outcome[3]) ELSE S
    IN  [Log([R EXCEPT !.ep_cbs = DictSet(R.ep_cbs, ep_addr, "None")], "clear", ep_addr, 0, 0, 0) EXCEPT !.ret = "None"]

\* _USBDevice._xfer_cb where the callback stored for the endpoint, when it
\* is a function, submits the next transfer on the same endpoint before it
\* returns: `_dev._submit_xfer(ep_addr, data, next_cb)`, which the
\* low-level driver answers with `outcome`.  The entry is read and set to
\* None before the callback is called (device.py:276-279).  _xfer_cb has
\* no return statement: what the nested submit returned is dropped.
USBDevice_xfer_cb_resubmitting(S, ep_addr, result, xferred_bytes, next_cb, outcome) ==
    LET cb == CbsGet(S.ep_cbs, ep_addr)
        C == Log([S EXCEPT !.ep_cbs = DictSet(S.ep_cbs, ep_addr, "None")], "clear", ep_addr, 0, 0, 0)
    IN  IF cb = "cb" THEN [USBDevice_submit_xfer(call_done_cb(C, ep_addr, result, xferred_bytes), ep_addr, next_cb, outcome[1], outcome[2], outcome[3]) EXCEPT !.ret = "None"] ELSE C

USBInterface_submit_xfer_NoOpenCheck(S, i, ep_addr, done_cb, outcome, result, xferred_bytes) ==
    [USBDevice_submit_xfer(S, ep_addr, done_cb, outcome, result, xferred_bytes) EXCEPT !.ret = "None"]

\* USBInterface.submit_xfer of object i
USBInterface_submit_xfer(S, i, ep_addr, done_cb, outcome, result, xferred_bytes) ==
    IF ~S.objs[i].open THEN [S EXCEPT !.exc = "Not open"]
    ELSE [USBDevice_submit_xfer(S, ep_addr, done_cb, outcome, result, xferred_bytes) EXCEPT !.ret = "None"]

\* Whether interface object o has an attribute _eps.  USBInterface.__init__
\* sets _open only and HIDInterface.__init__ adds _int_ep and no _eps; _eps
\* is an attribute of _USBDevice.
HasEpsAttr(o) == FALSE

\* USBInterface.stall(ep_addr, *args) of object i; args is "get" for no
\* further argument and "set" for one.  `not self._open or ep_addr not in
\* self._eps` reads self._eps only when the object is open, and reading an
\* attribute the object does not have raises AttributeError.
USBInterface_stall(S, i, ep_addr, args) ==
    IF ~S.objs[i].open THEN [S EXCEPT !.exc = "RuntimeError"]
    ELSE IF ~HasEpsAttr(S.objs[i]) THEN [S EXCEPT !.exc = "AttributeError"]
    ELSE IF ep_addr \notin {S.objs[i].eps[j] : j \in 1..Len(S.objs[i].eps)} THEN [S EXCEPT !.exc = "RuntimeError"]
    ELSE Log(S, "usbd_stall", ep_addr, i, args, 0)

\* USBInterface.handle_open of object i, or an override of it that calls
\* the base method and then submits a transfer with a completion callback
\* on the hook-th endpoint address it saved (hook = 0: the base method).
handle_open(S, i, hook, outcome) ==
    IF hook = 0 THEN Log([S EXCEPT !.objs[i].open = TRUE], "handle_open", 0, i, 0, 0)
    ELSE USBInterface_submit_xfer(Log([S EXCEPT !.objs[i].open = TRUE], "handle_open", 0, i, 0, 0), i, S.objs[i].eps[hook], "cb", outcome, 0, 0)

\* USBInterface.handle_reset that leaves _open as it is.
handle_reset_KeepsOpen(S, i) ==
    Log(S, "handle_reset", 0, i, 0, 0)

\* USBInterface.handle_reset of object i
handle_reset(S, i) ==
    Log([S EXCEPT !.objs[i].open = FALSE], "handle_reset", 0, i, 0, 0)

\* The scan of _open_itf_cb (device.py:221-234): acc = [eps, ep_cbs,
\* max_itf]; offs is the 0-based offset into desc.
RECURSIVE ScanDesc(_, _, _, _)
ScanDesc(desc, offs, itf, acc) ==
    IF offs >= Len(desc) THEN acc
    ELSE LET dl == desc[offs + DESC_OFFSET_LEN + 1]
             dt == desc[offs + DESC_OFFSET_TYPE + 1]
             ep_addr == desc[offs + DESC_OFFSET_ENDPOINT_NUM + 1]
             acc1 == IF dt = STD_DESC_ENDPOINT_TYPE
                     THEN [acc EXCEPT !.eps = DictSet(acc.eps, ep_addr, itf), !.ep_cbs = DictSet(acc.ep_cbs, ep_addr, "None")]
                     ELSE IF dt = STD_DESC_INTERFACE_TYPE
                     THEN [acc EXCEPT !.max_itf = Max(acc.max_itf, desc[offs + DESC_OFFSET_INTERFACE_NUM + 1])]
                     ELSE acc
         IN  ScanDesc(desc, offs + dl, itf, acc1)

\* `self._itfs.get(key, None)`; 0 stands for None.
ItfsGet(itfs, key) == IF key \in DOMAIN itfs THEN itfs[key] ELSE 0

\* The test that decides whether _open_itf_cb calls handle_open, made to
\* hold on every callback.
ShouldOpen_Always(itfs, max_itf, itf) == TRUE

\* `self._itfs.get(max_itf + 1, None) != itf`
ShouldOpen(itfs, max_itf, itf) == ItfsGet(itfs, max_itf + 1) # itf

\* _USBDevice._open_itf_cb(desc) after the scan (device.py:243-244); acc
\* is what the scan built, which replaces _eps and _ep_cbs.
\* hook and outcome describe the object's handle_open (see handle_open).
open_itf_scanned(S, itf, acc, hook, outcome) ==
    IF ShouldOpen(S.itfs, acc.max_itf, itf)
    THEN handle_open([S EXCEPT !.eps = acc.eps, !.ep_cbs = acc.ep_cbs], itf, hook, outcome)
    ELSE [S EXCEPT !.eps = acc.eps, !.ep_cbs = acc.ep_cbs]

\* _USBDevice._open_itf_cb(desc)
USBDevice_open_itf_cb(S, desc, hook, outcome) ==
    open_itf_scanned(S, S.itfs[desc[DESC_OFFSET_INTERFACE_NUM + 1]], ScanDesc(desc, 0, S.itfs[desc[DESC_OFFSET_INTERFACE_NUM + 1]], [eps |-> <<>>, ep_cbs |-> <<>>, max_itf |-> desc[DESC_OFFSET_INTERFACE_NUM + 1]]), hook, outcome)

\* The keys of a dict of integers, ascending (the insertion order of init).
RECURSIVE Keys(_)
Keys(ks) == IF ks = {} THEN <<>> ELSE LET m == CHOOSE x \in ks : \A y \in ks : x <= y IN <<m>> \o Keys(ks \ {m})

\* `for itf in self._itfs.values(): itf.handle_reset()`
RECURSIVE ResetItfs(_, _)
ResetItfs(S, keys) == IF keys = <<>> THEN S ELSE ResetItfs(handle_reset(S, S.itfs[Head(keys)]), Tail(keys))

\* `for k in self._ep_cbs.keys(): self._ep_cbs[k] = None`
ClearCbs(S) == [S EXCEPT !.ep_cbs = [k \in DOMAIN S.ep_cbs |-> "None"]]

\* _USBDevice._reset_cb with the two loops in the other order.
USBDevice_reset_cb_HooksFirst(S) == ClearCbs(ResetItfs(S, Keys(DOMAIN S.itfs)))

\* _USBDevice._reset_cb
USBDevice_reset_cb(S) == ResetItfs(ClearCbs(S), Keys(DOMAIN S.itfs))

\* USBInterface.is_open of object i
is_open(S, i) == S.objs[i].open

\* USBInterface.xfer_pending(ep_addr), for an ep_addr that is a key of
\* _ep_cbs (any other raises KeyError).
xfer_pending(S, ep_addr) == Truthy(S.ep_cbs[ep_addr])

\* HIDInterface.send_report of object i runs in steps, the callbacks of
\* the low-level driver running between them.  Each step gives pc, where
\* the call goes on ("loop": the test of the while loop, after the sleep;
\* "check": the test after the loop; "submit": the submit_xfer call;
\* "done": it returned or raised), left, the milliseconds to the deadline,
\* how it ended ("timeout", "closed", "raised") and S, with the value
\* returned in S.ret.

\* One test of the while loop that returns True where the deadline has
\* passed.
send_report_loop_TimeoutTrue(S, i, left) ==
    IF ~is_open(S, i) THEN [pc |-> "check", left |-> left, how |-> "none", S |-> S]
    ELSE IF S.objs[i].eps[1] \notin DOMAIN S.ep_cbs THEN [pc |-> "done", left |-> left, how |-> "raised", S |-> [S EXCEPT !.exc = "KeyError"]]
    ELSE IF ~xfer_pending(S, S.objs[i].eps[1]) THEN [pc |-> "check", left |-> left, how |-> "none", S |-> S]
    ELSE IF left <= 0 THEN [pc |-> "done", left |-> left, how |-> "timeout", S |-> [S EXCEPT !.ret = "True"]]
    ELSE [pc |-> "loop", left |-> left - SEND_REPORT_SLEEP_MS, how |-> "none", S |-> S]

\* One test of the while loop, with the deadline test and the sleep of
\* its body (hid.py:102-105).
send_report_loop(S, i, left) ==
    IF ~is_open(S, i) THEN [pc |-> "check", left |-> left, how |-> "none", S |-> S]
    ELSE IF S.objs[i].eps[1] \notin DOMAIN S.ep_cbs THEN [pc |-> "done", left |-> left, how |-> "raised", S |-> [S EXCEPT !.exc = "KeyError"]]
    ELSE IF ~xfer_pending(S, S.objs[i].eps[1]) THEN [pc |-> "check", left |-> left, how |-> "none", S |-> S]
    ELSE IF left <= 0 THEN [pc |-> "done", left |-> left, how |-> "timeout", S |-> [S EXCEPT !.ret = "False"]]
    ELSE [pc |-> "loop", left |-> left - SEND_REPORT_SLEEP_MS, how |-> "none", S |-> S]

\* `if not self.is_open(): return False` (hid.py:106-107)
send_report_check(S, i, left) ==
    IF ~is_open(S, i) THEN [pc |-> "done", left |-> left, how |-> "closed", S |-> [S EXCEPT !.ret = "False"]]
    ELSE [pc |-> "submit", left |-> left, how |-> "none", S |-> S]

\* `self.submit_xfer(self._int_ep, report_data)` and the end of the
\* function, which returns nothing (hid.py:108).
send_report_submit(S, i, outcome, result, xferred_bytes) ==
    [USBInterface_submit_xfer(S, i, S.objs[i].eps[1], "None", outcome, result, xferred_bytes) EXCEPT !.ret = "None"]

\* utils.split_bmRequestType: <<recipient, type, direction>>
split_bmRequestType(bmRequestType) == <<bmRequestType % 32, (bmRequestType \div 32) % 4, (bmRequestType \div 128) % 2>>

\* `self._eps.get(key, None)`; 0 stands for None.
EpsGet(eps, key) == IF key \in DOMAIN eps THEN eps[key] ELSE 0

\* ------------------------------------------------------------------------
\* HIDInterface's control transfers, as operators on the record
\*   H = [made, k, has_buf, buf, o]
\* made: the object was constructed; k: the constructor's arguments (as
\* for HIDKind); has_buf and buf: set_report_buf (has_buf = FALSE for
\* None); o: the object's state.
\* ------------------------------------------------------------------------

\* get_hid_descriptor() without an argument: `desc = Descriptor(bytearray(l))`
\* and the bytearray is returned.
get_hid_descriptor_default(k) == get_hid_descriptor(Descriptor(TRUE, Zeros(9 + 3 * Len(k.extra))), k).b

\* `self._set_report_buf` taken as a condition.
BufTruthy(H) == H.has_buf /\ Len(H.buf) > 0

\* handle_set_report was not called.
NoSetReport == [called |-> FALSE, data |-> <<>>, report_id |-> 0, report_type |-> 0]

\* What handle_interface_control_xfer leaves: the object, the value
\* returned as [t, b] (t: "False", "True", "bytes", "report_descriptor",
\* "buffer" for set_report_buf itself, "view" for a memoryview slice of it;
\* b: the bytes), the exception raised, and the handle_set_report call.
HidReply(H, t, b) == [H |-> H, ret |-> [t |-> t, b |-> b], exc |-> "none", set_report |-> NoSetReport]

HidRaise(H, exc) == [H |-> H, ret |-> [t |-> "none", b |-> <<>>], exc |-> exc, set_report |-> NoSetReport]

\* SETUP stage, standard requests (hid.py:176-183).
hid_setup_standard(H, bRequest, wValue) ==
    IF bRequest = REQ_CONTROL_GET_DESCRIPTOR /\ wValue \div 256 = DESC_HID_TYPE THEN HidReply(H, "bytes", get_hid_descriptor_default(H.k))
    ELSE IF bRequest = REQ_CONTROL_GET_DESCRIPTOR /\ wValue \div 256 = DESC_REPORT_TYPE THEN HidReply(H, "report_descriptor", <<>>)
    ELSE HidReply(H, "False", <<>>)

\* SET_REPORT at SETUP stage that always offers the whole buffer.
hid_setup_set_report_WholeBuffer(H, wLength) ==
    IF ~BufTruthy(H) THEN HidReply(H, "False", <<>>)
    ELSE HidReply(H, "buffer", H.buf)

\* SET_REPORT at SETUP stage (hid.py:199-212).
hid_setup_set_report(H, wLength) ==
    IF ~BufTruthy(H) THEN HidReply(H, "False", <<>>)
    ELSE IF wLength >= Len(H.buf) THEN HidReply(H, "buffer", H.buf)
    ELSE HidReply(H, "view", SubSeq(H.buf, 1, wLength))

\* SETUP stage, class requests (hid.py:184-212).  bytes([x]) raises
\* ValueError for x outside 0..255; idle_rate does not exist before
\* desc_cfg has run.
hid_setup_class(H, bRequest, wValue, wLength) ==
    IF bRequest = REQ_CONTROL_GET_REPORT THEN HidReply(H, "False", <<>>)
    ELSE IF bRequest = REQ_CONTROL_GET_IDLE
         THEN IF H.o.idle_rate = -1 THEN HidRaise(H, "AttributeError") ELSE HidReply(H, "bytes", <<H.o.idle_rate>>)
    ELSE IF bRequest = REQ_CONTROL_GET_PROTOCOL
         THEN IF H.o.protocol > 255 THEN HidRaise(H, "ValueError") ELSE HidReply(H, "bytes", <<H.o.protocol>>)
    ELSE IF bRequest = REQ_CONTROL_SET_IDLE THEN HidReply([H EXCEPT !.o.idle_rate = wValue \div 256], "bytes", <<>>)
    ELSE IF bRequest = REQ_CONTROL_SET_PROTOCOL THEN HidReply([H EXCEPT !.o.protocol = wValue], "bytes", <<>>)
    ELSE IF bRequest = REQ_CONTROL_SET_REPORT THEN hid_setup_set_report(H, wLength)
    ELSE HidReply(H, "False", <<>>)

\* DATA stage (hid.py:215-225): handle_set_report gets the buffer or a
\* view of its first wLength bytes.
hid_data(H, req_type, bRequest, wValue, wLength) ==
    IF req_type = REQ_TYPE_CLASS /\ bRequest = REQ_CONTROL_SET_REPORT /\ BufTruthy(H)
    THEN [HidReply(H, "True", <<>>) EXCEPT !.set_report = [called |-> TRUE, data |-> IF wLength < Len(H.buf) THEN SubSeq(H.buf, 1, wLength) ELSE H.buf, report_id |-> wValue % 256, report_type |-> wValue \div 256]]
    ELSE HidReply(H, "True", <<>>)

\* HIDInterface.handle_interface_control_xfer(stage, request) with the
\* fields of struct.unpack("BBHHH", request) passed on.
hid_control_unpacked(H, stage, req_type, bRequest, wValue, wLength) ==
    IF stage = STAGE_SETUP
    THEN IF req_type = REQ_TYPE_STANDARD THEN hid_setup_standard(H, bRequest, wValue)
         ELSE IF req_type = REQ_TYPE_CLASS THEN hid_setup_class(H, bRequest, wValue, wLength)
         ELSE HidReply(H, "False", <<>>)
    ELSE IF stage = STAGE_DATA THEN hid_data(H, req_type, bRequest, wValue, wLength)
    ELSE HidReply(H, "True", <<>>)

\* HIDInterface.handle_interface_control_xfer(stage, request)
HID_handle_interface_control_xfer(H, stage, request) ==
    hid_control_unpacked(H, stage, split_bmRequestType(request[1])[2], request[2], request[3] + 256 * request[4], request[7] + 256 * request[8])

\* The HIDInterface object itf of S as the record the HID operators take;
\* the device passes no set_report_buf.
HidOf(S, itf, ks) == [made |-> TRUE, k |-> ks[itf], has_buf |-> FALSE, buf |-> <<>>, o |-> S.objs[itf]]

\* The handler of a HIDInterface ran and left r: the object's attributes,
\* and the value returned (hret, as returned by the handler, and ret) or
\* the exception raised.
hid_handler_done(S, itf, r) ==
    [S EXCEPT !.objs[itf] = r.H.o, !.exc = r.exc, !.hret = IF r.exc = "none" THEN r.ret.t ELSE "None", !.ret = IF r.exc = "none" THEN r.ret.t ELSE "None"]

\* handle_device_control_xfer, handle_interface_control_xfer or
\* handle_endpoint_control_xfer (named by handler) of object itf runs:
\* HIDInterface overrides handle_interface_control_xfer (hid.py:169-227),
\* every other handler is USBInterface's and returns False
\* (device.py:450, 467, 487).  ks are the classes of the objects.
handle_control_xfer(S, handler, itf, stage, request, ks) ==
    IF handler = "handle_interface_control_xfer" /\ ks[itf].cls = "HID"
    THEN hid_handler_done(Log(S, handler, 0, itf, request, stage), itf, HID_handle_interface_control_xfer(HidOf(S, itf, ks), stage, request))
    ELSE [Log(S, handler, 0, itf, request, stage) EXCEPT !.hret = "False", !.ret = "False"]

\* `if itf: result = itf.handle_NNN_control_xfer(stage, request)` and the
\* rest of _control_xfer_cb (device.py:298-323).
control_xfer_resolved(S, handler, itf, stage, request, ks) ==
    IF itf # 0 THEN handle_control_xfer(S, handler, itf, stage, request, ks)
    ELSE [S EXCEPT !.exc = "RuntimeError"]

\* _control_xfer_cb with wIndex and recipient computed (device.py:294-323).
control_xfer_routed(S, wIndex, recipient, stage, request, ks) ==
    IF recipient = REQ_RECIPIENT_DEVICE
    THEN control_xfer_resolved(S, "handle_device_control_xfer", ItfsGet(S.itfs, wIndex % 65536), stage, request, ks)
    ELSE IF recipient = REQ_RECIPIENT_INTERFACE
    THEN control_xfer_resolved(S, "handle_interface_control_xfer", ItfsGet(S.itfs, wIndex % 65536), stage, request, ks)
    ELSE IF recipient = REQ_RECIPIENT_ENDPOINT
    THEN control_xfer_resolved(S, "handle_endpoint_control_xfer", EpsGet(S.eps, wIndex % 65536), stage, request, ks)
    ELSE [S EXCEPT !.exc = "RuntimeError"]

\* _control_xfer_cb that looks every recipient up in _itfs.
USBDevice_control_xfer_cb_ByItfs(S, stage, request, ks) ==
    control_xfer_resolved(S, "handle_interface_control_xfer", ItfsGet(S.itfs, request[5] + request[6] * 256), stage, request, ks)

\* _control_xfer_cb that answers False where no interface resolves.
USBDevice_control_xfer_cb_Silent(S, stage, request, ks) ==
    IF control_xfer_routed(S, request[5] + request[6] * 256, split_bmRequestType(request[1])[1], stage, request, ks).exc = "none"
    THEN control_xfer_routed(S, request[5] + request[6] * 256, split_bmRequestType(request[1])[1], stage, request, ks)
    ELSE [S EXCEPT !.ret = "False"]

\* _USBDevice._control_xfer_cb(stage, request); request is the 8 bytes of
\* the setup packet.
USBDevice_control_xfer_cb(S, stage, request, ks) ==
    control_xfer_routed(S, request[5] + request[6] * 256, split_bmRequestType(request[1])[1], stage, request, ks)

\* ------------------------------------------------------------------------
\* The low-level driver's side of "set configuration": it walks the
\* configuration descriptor registered by init and calls _open_itf_cb once
\* per interface or association group, with the slice that starts at the
\* group's first interface descriptor (device.py:206-211).
\* ------------------------------------------------------------------------

\* The descriptors of a configuration descriptor, each <<first byte
\* (1-based), length, type>>, from 0-based offset offs on.
RECURSIVE DescList(_, _)
DescList(b, offs) ==
    IF offs >= Len(b) THEN <<>>
    ELSE <<(<<offs + 1, b[offs + 1], b[offs + 2]>>)>> \o DescList(b, offs + b[offs + 1])

\* acc = [groups, left, fresh]: the byte ranges <<first, last>> of the groups
\* so far, the interfaces the current association still covers, and
\* whether an association descriptor was just read.
RECURSIVE GroupFold(_, _, _)
GroupFold(b, ds, acc) ==
    IF ds = <<>> THEN acc.groups
    ELSE LET d == Head(ds)
             last == d[1] + d[2] - 1
             n == Len(acc.groups)
             extend == [acc EXCEPT !.groups[n] = <<acc.groups[n][1], last>>]
             start == [acc EXCEPT !.groups = Append(acc.groups, <<d[1], last>>)]
         IN  IF d[3] = ITF_ASSOCIATION_DESC_TYPE
             THEN GroupFold(b, Tail(ds), [acc EXCEPT !.left = b[d[1] + 3], !.fresh = TRUE])
             ELSE IF d[3] = STD_DESC_INTERFACE_TYPE
             THEN IF acc.fresh THEN GroupFold(b, Tail(ds), [start EXCEPT !.left = acc.left - 1, !.fresh = FALSE])
                  ELSE IF acc.left > 0 THEN GroupFold(b, Tail(ds), [extend EXCEPT !.left = acc.left - 1])
                  ELSE GroupFold(b, Tail(ds), start)
             ELSE IF n > 0 /\ ~acc.fresh THEN GroupFold(b, Tail(ds), extend)
             ELSE GroupFold(b, Tail(ds), acc)

\* The slices handed to _open_itf_cb, in order: the groups whose first
\* interface number is not one of the built-in driver's.
Groups(b, itf_min) ==
    LET gs == GroupFold(b, DescList(b, STD_DESC_CONFIG_LEN), [groups |-> <<>>, left |-> 0, fresh |-> FALSE])
        sl == [i \in 1..Len(gs) |-> SubSeq(b, gs[i][1], gs[i][2])]
    IN  SelectSeq(sl, LAMBDA x : x[DESC_OFFSET_INTERFACE_NUM + 1] >= itf_min)

\* ------------------------------------------------------------------------
\* utils.Buffer, as operators on the record B = [b, n, w, err]: the
\* bytearray _b, the indices _n and _w, and whether an assertion failed.
\* ------------------------------------------------------------------------

\* Buffer.__init__(length)
Buffer(length) == [b |-> Zeros(length), n |-> 0, w |-> length, err |-> FALSE]

\* Buffer.writable
writable(B) == Len(B.b) - B.n

\* Buffer.readable
readable(B) == B.n

\* Buffer.pend_write(wmax); wmax = -1 stands for None.  The result: the
\* buffer, and the window (memoryview) returned, as its first index
\* (0-based) and its length.
pend_write(B, wmax) ==
    [buf |-> [B EXCEPT !.w = B.n],
     start |-> B.n,
     len |-> Max(0, Min(IF wmax # -1 /\ wmax # 0 THEN B.n + wmax ELSE Len(B.b), Len(B.b)) - B.n)]

\* The loop of finish_write's slow path (utils.py:276-280).
RECURSIVE ShiftWritten(_, _)
ShiftWritten(B, nbytes) ==
    IF nbytes > 0
    THEN ShiftWritten([B EXCEPT !.b[B.n + 1] = B.b[B.w + 1], !.n = B.n + 1, !.w = B.w + 1], nbytes - 1)
    ELSE B

\* Buffer.finish_write without the slow path: the count is always just
\* incremented.
finish_write_FastOnly(B, nbytes) ==
    IF ~(nbytes <= Len(B.b) - B.w) THEN [B EXCEPT !.err = TRUE]
    ELSE [B EXCEPT !.n = B.n + nbytes, !.w = Len(B.b)]

\* Buffer.finish_write that leaves _w where pend_write put it.
finish_write_KeepsW(B, nbytes) ==
    IF ~(nbytes <= Len(B.b) - B.w) THEN [B EXCEPT !.err = TRUE]
    ELSE IF B.n = B.w THEN [B EXCEPT !.n = B.n + nbytes]
    ELSE ShiftWritten(B, nbytes)

\* Buffer.finish_write(nbytes)
finish_write(B, nbytes) ==
    IF ~(nbytes <= Len(B.b) - B.w) THEN [B EXCEPT !.err = TRUE]
    ELSE IF B.n = B.w THEN [B EXCEPT !.n = B.n + nbytes, !.w = Len(B.b)]
    ELSE [ShiftWritten(B, nbytes) EXCEPT !.w = Len(B.b)]

\* Buffer.pend_read: the length of the memoryview _b[:_n] returned.
pend_read(B) == B.n

\* The loop of finish_read (utils.py:308-312); n is _n after the
\* subtraction.
RECURSIVE ShiftRemaining(_, _, _, _)
ShiftRemaining(b, i, n, nbytes) ==
    IF i < n THEN ShiftRemaining([b EXCEPT ![i + 1] = b[i + nbytes + 1]], i + 1, n, nbytes) ELSE b

\* Buffer.finish_read that drops the count and leaves the bytes in place.
finish_read_NoShift(B, nbytes) ==
    IF nbytes = 0 THEN B
    ELSE IF ~(nbytes <= B.n) THEN [B EXCEPT !.err = TRUE]
    ELSE [B EXCEPT !.n = B.n - nbytes]

\* Buffer.finish_read(nbytes)
finish_read(B, nbytes) ==
    IF nbytes = 0 THEN B
    ELSE IF ~(nbytes <= B.n) THEN [B EXCEPT !.err = TRUE]
    ELSE [B EXCEPT !.n = B.n - nbytes, !.b = ShiftRemaining(B.b, 0, B.n - nbytes, nbytes)]

\* ------------------------------------------------------------------------
\* State
\* ------------------------------------------------------------------------

VARIABLES
    kinds,      \* the interface objects given to init (<<>> before init)
    objs,       \* the state of each interface object
    itfs,       \* _USBDevice._itfs
    eps,        \* _USBDevice._eps
    ep_cbs,     \* _USBDevice._ep_cbs
    cfg_desc,   \* the configuration descriptor given to the low-level driver
    groups,     \* the slices of it the low-level driver hands to _open_itf_cb
    built,      \* what init computed on the way: lengths, cursor, numbers
    strs,       \* the string list given to the low-level driver
    itf_min,    \* the built-in driver's itf_max
    cfg_next,   \* low-level driver: 0 before the first bus reset; else the
                \* group _open_itf_cb is called for next
    inflight,   \* low-level driver: the transfers it holds, per endpoint
    trace,      \* what the last handler did
    call,       \* the last entry into the package and how it ended
    opens,      \* per object, handle_open calls since the last bus reset
    usbd,       \* low-level driver: whether it is active, and the calls init made
    dsc,        \* two Descriptors under test, one with a buffer and one without
    buf,        \* the Buffer under test
    prod,       \* the producer: where it is and the window it was given
    cons,       \* the consumer: where it is and what it copied out
    written,    \* every byte the producer committed, in order
    readout,    \* every byte the consumer took, in order
    buf_call,   \* the last finish_write or finish_read and what it started from
    irq,        \* machine: whether interrupts are enabled
    crit,       \* the finish_write or finish_read in progress, statement by statement
    report,     \* the send_report call in progress
    hid,        \* the HIDInterface whose control transfers are under test
    hid_call    \* the last call of one of its methods and what it returned

devVars == <<kinds, objs, itfs, eps, ep_cbs, cfg_desc, groups, built, strs, itf_min, cfg_next, inflight, trace, call, opens, usbd, dsc>>

bufVars == <<buf, prod, cons, written, readout, buf_call, irq, crit>>

hidVars == <<hid, hid_call>>

vars == <<devVars, bufVars, report, hidVars>>

\* The handlers' view of the state, with an empty trace.
St == [eps |-> eps, ep_cbs |-> ep_cbs, objs |-> objs, itfs |-> itfs, inflight |-> inflight, trace |-> <<>>, exc |-> "none", ret |-> "None", hret |-> "None"]

\* The state a handler leaves.
Set(S) ==
    /\ eps' = S.eps
    /\ ep_cbs' = S.ep_cbs
    /\ objs' = S.objs
    /\ inflight' = S.inflight
    /\ trace' = S.trace

\* The record of an entry into the package: the operation, its arguments
\* (interface object, endpoint address or interface number, done_cb, what
\* the low-level driver did, the completion it reported), the exception
\* it ended with (for _open_itf_cb: ep and n are the endpoint address and
\* the index handle_open submits on, res the slice's first interface
\* number), and the state it started from: the endpoint's _ep_cbs
\* entry, whether the endpoint was in _eps, whether the object was open,
\* what the driver held on the endpoint, the endpoints marked pending,
\* the whole of _ep_cbs; and ret, the value it returned.
Call(op, itf, ep, cb, outcome, res, n, S) == [op |-> op, itf |-> itf, ep |-> ep, cb |-> cb, outcome |-> outcome, res |-> res, n |-> n, exc |-> S.exc, ret |-> S.ret, hret |-> S.hret, pre |-> CbsGet(ep_cbs, ep), pre_cbs |-> ep_cbs, pre_known |-> ep \in DOMAIN eps, pre_open |-> IF itf \in 1..Len(objs) THEN objs[itf].open ELSE FALSE, pre_held |-> IF ep \in DOMAIN inflight THEN inflight[ep] ELSE <<>>, pre_pending |-> PendingEps(ep_cbs)]

NoCall == [op |-> "none", itf |-> 0, ep |-> 0, cb |-> "None", outcome |-> "none", res |-> 0, n |-> 0, exc |-> "none", ret |-> "None", hret |-> "None", pre |-> "None", pre_cbs |-> <<>>, pre_known |-> FALSE, pre_open |-> FALSE, pre_held |-> <<>>, pre_pending |-> {}]

\* All endpoint addresses the objects saved in desc_cfg.
ObjEps(os) == UNION {{os[i].eps[j] : j \in 1..Len(os[i].eps)} : i \in 1..Len(os)}

\* The low-level driver is between two _open_itf_cb calls of one "set
\* configuration": nothing else runs until the last group is reported.
MidEnum == cfg_next > 1 /\ cfg_next <= Len(groups)

Outcomes == {"accepted", "sync", "refused", "error"}

\* What an object with n endpoint addresses may do in handle_open: the
\* base method alone (hook 0), or a submit on its hook-th endpoint address,
\* with what the low-level driver does with it.
HookChoices(n) == {<<0, "accepted">>} \cup ((1..n) \X Outcomes)
\* The (result, xferred_bytes) pairs a completion reports: RESULT_SUCCESS
\* with 8 bytes, RESULT_FAILED with none.
Completions == {<<0, 8>>, <<1, 0>>}

\* What the low-level driver can do with a submit, with the completion it
\* reports when it completes the transfer before returning.
SubmitOutcomes == {<<"accepted", 0, 0>>, <<"refused", 0, 0>>, <<"error", 0, 0>>} \cup {<<"sync", c[1], c[2]>> : c \in Completions}

\* init has not run.
NotBuilt == [builtin |-> BUILTIN_NONE, dry_o |-> 0, o |-> 0, err |-> FALSE, itf_num |-> 0, ep_num |-> 0, handed |-> <<>>]

DevInit ==
    /\ kinds = <<>>
    /\ objs = <<>>
    /\ itfs = <<>>
    /\ eps = <<>>
    /\ ep_cbs = <<>>
    /\ cfg_desc = <<>>
    /\ groups = <<>>
    /\ built = NotBuilt
    /\ strs = <<>>
    /\ itf_min = 0
    /\ cfg_next = 0
    /\ inflight = <<>>
    /\ trace = <<>>
    /\ call = NoCall
    /\ opens = <<>>
    /\ usbd = NoUsbd
    /\ dsc = NoDesc

\* The state after init returned r.
InitSet(ks, r, builtin_drivers, active) ==
    /\ kinds' = ks
    /\ objs' = r.objs
    /\ itfs' = r.itfs
    /\ cfg_desc' = r.desc.b
    /\ groups' = Groups(r.desc.b, (IF builtin_drivers THEN BUILTIN_DEFAULT ELSE BUILTIN_NONE).itf_max)
    /\ built' = [builtin |-> IF builtin_drivers THEN BUILTIN_DEFAULT ELSE BUILTIN_NONE, dry_o |-> r.dry_o, o |-> r.desc.o, err |-> r.desc.err, itf_num |-> r.itf_num, ep_num |-> r.ep_num, handed |-> r.handed]
    /\ strs' = r.strs
    /\ itf_min' = (IF builtin_drivers THEN BUILTIN_DEFAULT ELSE BUILTIN_NONE).itf_max
    /\ inflight' = [e \in ObjEps(r.objs) |-> <<>>]
    /\ opens' = [i \in 1..Len(ks) |-> 0]
    /\ call' = [NoCall EXCEPT !.op = "init"]
    /\ usbd' = init_usbd(usbd, r, active)

\* Application: usbd.device.get().init(*itfs, builtin_drivers=...), with
\* active at its default, on a low-level driver that is not active.
DoInit ==
    /\ kinds = <<>>
    /\ UNCHANGED dsc
    /\ ~usbd.active
    /\ \E ks \in Layouts, builtin_drivers \in BOOLEAN : InitSet(ks, init(ks, [i \in 1..Len(ks) |-> NewObj(ks[i])], builtin_drivers), builtin_drivers, TRUE)
    /\ UNCHANGED <<eps, ep_cbs, cfg_next, trace>>
    /\ UNCHANGED bufVars
    /\ UNCHANGED report
    /\ UNCHANGED hidVars

\* The low-level driver is active before init is called (the built-in
\* driver at boot, or an earlier configuration).
UsbdBoot ==
    /\ kinds = <<>>
    /\ ~usbd.active
    /\ usbd' = [usbd EXCEPT !.active = TRUE]
    /\ UNCHANGED dsc
    /\ UNCHANGED <<kinds, objs, itfs, eps, ep_cbs, cfg_desc, groups, built, strs, itf_min, cfg_next, inflight, trace, call, opens>>
    /\ UNCHANGED bufVars
    /\ UNCHANGED report
    /\ UNCHANGED hidVars

\* Application: init(*itfs, builtin_drivers=..., active=...)
DoInitActive ==
    /\ kinds = <<>>
    /\ UNCHANGED dsc
    /\ \E ks \in Layouts, builtin_drivers \in BOOLEAN, active \in BOOLEAN : InitSet(ks, init(ks, [i \in 1..Len(ks) |-> NewObj(ks[i])], builtin_drivers), builtin_drivers, active)
    /\ UNCHANGED <<eps, ep_cbs, cfg_next, trace>>
    /\ UNCHANGED bufVars
    /\ UNCHANGED report
    /\ UNCHANGED hidVars

\* The state after a call on both Descriptors under test gave real and
\* dry.
DescSet(op, offs, size, real, dry) ==
    /\ dsc' = [made |-> TRUE, real |-> real, dry |-> dry, n |-> dsc.n + 1, last |-> [op |-> op, offs |-> offs, size |-> size]]
    /\ UNCHANGED <<kinds, objs, itfs, eps, ep_cbs, cfg_desc, groups, built, strs, itf_min, cfg_next, inflight, trace, call, opens, usbd>>
    /\ UNCHANGED bufVars
    /\ UNCHANGED report
    /\ UNCHANGED hidVars

\* Descriptor(bytearray(len)) and Descriptor(None); a bytearray of length
\* 0 is tried as well.
DescNew ==
    /\ ~dsc.made
    /\ \E len \in {0, DescLen} : DescSet("new", 0, 0, Descriptor(TRUE, Zeros(len)), Descriptor(FALSE, <<>>))

\* append(a) on both, with a of length 1, 2 and 9.
DescAppend ==
    /\ dsc.made
    /\ dsc.n <= MaxDescOps
    /\ \E a \in {<<1>>, <<2, 3>>, Zeros(STD_DESC_CONFIG_LEN)} :
         /\ Fits(dsc.real, dsc.real.o + Len(a))
         /\ DescSet("append", dsc.real.o, Len(a), append(dsc.real, a), append(dsc.dry, a))

\* pack(fmt, *args) on both, with "<BB" and "<H".
DescPack ==
    /\ dsc.made
    /\ dsc.n <= MaxDescOps
    /\ \E fa \in {<< <<1, 1>>, <<4, 5>> >>, << <<2>>, <<1543>> >>} :
         /\ Fits(dsc.real, dsc.real.o + CalcSize(fa[1]))
         /\ DescSet("pack", dsc.real.o, CalcSize(fa[1]), pack(dsc.real, fa[1], fa[2]), pack(dsc.dry, fa[1], fa[2]))

\* pack_into(fmt, offs, *args) on both: the configuration header
\* ("<BBHBBBBB", device.py:175-186) or one byte, at offset 0, 1 or the
\* cursor.
DescPackInto ==
    /\ dsc.made
    /\ dsc.n <= MaxDescOps
    /\ \E fa \in {<< <<1, 1, 2, 1, 1, 1, 1, 1>>, <<STD_DESC_CONFIG_LEN, STD_DESC_CONFIG_TYPE, Len(dsc.real.b), 1, 1, 0, 128, 50>> >>, << <<1>>, <<8>> >>}, offs \in {0, 1, dsc.real.o} :
         /\ Fits(dsc.real, offs + CalcSize(fa[1]))
         /\ DescSet("pack_into", offs, CalcSize(fa[1]), pack_into(dsc.real, fa[1], offs, fa[2]), pack_into(dsc.dry, fa[1], offs, fa[2]))

\* Low-level driver: bus reset.  The driver, which is active, drops the
\* transfers it holds and calls _reset_cb.
BusReset ==
    /\ kinds # <<>>
    /\ usbd.active
    /\ ~MidEnum
    /\ \E S \in {USBDevice_reset_cb([St EXCEPT !.inflight = [e \in DOMAIN inflight |-> <<>>]])} :
           Set(S) /\ call' = Call("reset", 0, 0, "None", "none", 0, 0, S)
    /\ cfg_next' = 1
    /\ opens' = [i \in DOMAIN opens |-> 0]
    /\ UNCHANGED <<kinds, itfs, cfg_desc, groups, built, strs, itf_min>>
    /\ UNCHANGED <<usbd, dsc>>
    /\ UNCHANGED bufVars
    /\ UNCHANGED report
    /\ UNCHANGED hidVars

\* Low-level driver: a bus reset after which the completion event of at most
\* one of the transfers it cancelled may still arrive.
BusResetLate ==
    /\ kinds # <<>>
    /\ usbd.active
    /\ ~MidEnum
    /\ \E S \in {USBDevice_reset_cb([St EXCEPT !.inflight = [e \in DOMAIN inflight |-> <<>>]])} :
           Set(S) /\ call' = Call("reset", 0, 0, "None", "none", 0, 0, S)
    /\ cfg_next' = 1
    /\ opens' = [i \in DOMAIN opens |-> 0]
    /\ \E late \in {{}} \cup {{<<e, Head(inflight[e])>>} : e \in {x \in DOMAIN inflight : inflight[x] # <<>>}} : usbd' = [usbd EXCEPT !.stale = late]
    /\ UNCHANGED <<kinds, itfs, cfg_desc, groups, built, strs, itf_min, dsc>>
    /\ UNCHANGED bufVars
    /\ UNCHANGED report
    /\ UNCHANGED hidVars

\* Low-level driver: the host set the configuration; _open_itf_cb for the
\* next group.
OpenItf ==
    /\ cfg_next \in 1..Len(groups)
    /\ LET desc == groups[cfg_next]
           itf == itfs[desc[DESC_OFFSET_INTERFACE_NUM + 1]]
       IN  \E h \in HookChoices(Len(objs[itf].eps)) :
             \E S \in {USBDevice_open_itf_cb(St, desc, h[1], h[2])} :
                 /\ Set(S)
                 /\ call' = Call("open_itf", itf, IF h[1] = 0 THEN 0 ELSE objs[itf].eps[h[1]], "cb", h[2], desc[DESC_OFFSET_INTERFACE_NUM + 1], h[1], S)
                 /\ opens' = [i \in DOMAIN opens |-> opens[i] + Cardinality({j \in 1..Len(S.trace) : S.trace[j].ev = "handle_open" /\ S.trace[j].itf = i})]
    /\ cfg_next' = cfg_next + 1
    /\ UNCHANGED <<kinds, itfs, cfg_desc, groups, built, strs, itf_min>>
    /\ UNCHANGED <<usbd, dsc>>
    /\ UNCHANGED bufVars
    /\ UNCHANGED report
    /\ UNCHANGED hidVars

\* Application: object i calls self.submit_xfer(ep_addr, data, done_cb) on
\* one of its endpoint addresses.
AppSubmit ==
    /\ kinds # <<>>
    /\ ~MidEnum
    /\ \E i \in 1..Len(objs), done_cb \in {"None", "cb"}, out \in SubmitOutcomes :
         \E j \in 1..Len(objs[i].eps) :
           \E ep_addr \in {objs[i].eps[j]} :
             \E S \in {USBInterface_submit_xfer(St, i, ep_addr, done_cb, out[1], out[2], out[3])} :
               Set(S) /\ call' = Call("submit", i, ep_addr, done_cb, out[1], out[2], out[3], S)
    /\ UNCHANGED <<kinds, itfs, cfg_desc, groups, built, strs, itf_min, cfg_next, opens>>
    /\ UNCHANGED <<usbd, dsc>>
    /\ UNCHANGED bufVars
    /\ UNCHANGED report
    /\ UNCHANGED hidVars

\* Low-level driver: a transfer it holds completed; _xfer_cb.
XferDone ==
    /\ ~MidEnum
    /\ \E ep_addr \in DOMAIN inflight, c \in Completions :
         /\ inflight[ep_addr] # <<>>
         /\ \E S \in {USBDevice_xfer_cb([St EXCEPT !.inflight[ep_addr] = Tail(@)], ep_addr, c[1], c[2])} :
                Set(S) /\ call' = Call("xfer", 0, ep_addr, "None", "none", c[1], c[2], S)
    /\ UNCHANGED <<kinds, itfs, cfg_desc, groups, built, strs, itf_min, cfg_next, opens>>
    /\ UNCHANGED <<usbd, dsc>>
    /\ UNCHANGED bufVars
    /\ UNCHANGED report
    /\ UNCHANGED hidVars

\* Low-level driver: a transfer it holds completed; _xfer_cb, with a
\* completion callback that submits the next transfer on the endpoint.
XferDoneResubmit ==
    /\ ~MidEnum
    /\ \E ep_addr \in DOMAIN inflight, c \in Completions, next_cb \in {"None", "cb"}, out \in SubmitOutcomes :
         /\ inflight[ep_addr] # <<>>
         /\ \E S \in {USBDevice_xfer_cb_resubmitting([St EXCEPT !.inflight[ep_addr] = Tail(@)], ep_addr, c[1], c[2], next_cb, out)} :
                Set(S) /\ call' = Call("xfer_resubmit", 0, ep_addr, next_cb, out[1], c[1], c[2], S)
    /\ UNCHANGED <<kinds, itfs, cfg_desc, groups, built, strs, itf_min, cfg_next, opens>>
    /\ UNCHANGED <<usbd, dsc>>
    /\ UNCHANGED bufVars
    /\ UNCHANGED report
    /\ UNCHANGED hidVars

\* Low-level driver: the completion event of a transfer that a bus reset
\* cancelled arrives, before a new transfer was accepted on its endpoint;
\* _xfer_cb.  call.cb is the done_cb the cancelled transfer was submitted
\* with.
LateXferDone ==
    /\ ~MidEnum
    /\ \E t \in usbd.stale, c \in Completions :
         /\ inflight[t[1]] = <<>>
         /\ \E S \in {USBDevice_xfer_cb(St, t[1], c[1], c[2])} :
                Set(S) /\ call' = Call("late_xfer", 0, t[1], t[2], "none", c[1], c[2], S)
         /\ usbd' = [usbd EXCEPT !.stale = usbd.stale \ {t}]
    /\ UNCHANGED <<kinds, itfs, cfg_desc, groups, built, strs, itf_min, cfg_next, opens, dsc>>
    /\ UNCHANGED bufVars
    /\ UNCHANGED report
    /\ UNCHANGED hidVars

\* ------------------------------------------------------------------------
\* One producer and one consumer on a Buffer.  Each is a sequence of
\* steps; the other side (an interrupt handler, or the code it
\* interrupted) may run between any two of them.  finish_write and
\* finish_read run with interrupts disabled and are one step each.
\* ------------------------------------------------------------------------

\* Slice [:_n]: the bytes waiting to be read.
Readable(B) == SubSeq(B.b, 1, B.n)

Idle == [pc |-> "idle", start |-> 0, len |-> 0, k |-> 0, got |-> <<>>, want |-> -1, wmax |-> -1]

NoBufCall == [op |-> "none", k |-> 0, path |-> "none", want |-> -1, avail |-> 0, pre_n |-> 0, pre_readable |-> <<>>, placed |-> <<>>, post_n |-> 0, post_readable |-> <<>>, window_kept |-> TRUE, err |-> FALSE]

\* The bytes of B's pending write window, the slice [_w:].
Window(B) == SubSeq(B.b, B.w + 1, Len(B.b))

\* What a call gave.  op: "finish_write" or "finish_read" for that method
\* (called directly, or by write() or readinto(), which then return k), or
\* "write" or "readinto" for a call of that method that returned 0 without
\* reaching it; k: the byte count; want: the length of the argument of
\* write() or readinto(), -1 for a direct call; avail: the length of the
\* window or view write() or readinto() got from pend_write or pend_read
\* (0 for a direct call); who: the caller; B: the Buffer before, B2
\* after; placed: the bytes at the window's start, or the bytes copied
\* out; window_kept: _w and the bytes from _w on are as they were.
BufCall(op, k, path, who, B, placed, B2) == [op |-> op, k |-> k, path |-> path, want |-> who.want, avail |-> IF who.want = -1 THEN 0 ELSE who.len, pre_n |-> B.n, pre_readable |-> Readable(B), placed |-> placed, post_n |-> B2.n, post_readable |-> Readable(B2), window_kept |-> B2.w = B.w /\ Window(B2) = Window(B), err |-> B2.err]

\* The values wmax takes: None (-1), 0, and every length up to the
\* Buffer's.
WMaxChoices == {-1} \cup (0..BufLen)

\* The lengths of the arguments of write() and readinto() tried: empty,
\* short, and longer than the Buffer.
WantChoices == {0, 1, 2, BufLen + 1}

\* No finish_write or finish_read is in progress.  op and exc keep
\* which one ran last and whether its assertion failed.  While one runs: pc is the statement it is at, count
\* its argument, nbytes and i its local variables, entry the Buffer as
\* it was when it was called.
NoCrit == [op |-> "none", pc |-> "idle", ist |-> TRUE, count |-> 0, nbytes |-> 0, i |-> 0, exc |-> FALSE, entry |-> Buffer(0)]

BufInit ==
    /\ buf = Buffer(BufLen)
    /\ prod = Idle
    /\ cons = Idle
    /\ written = <<>>
    /\ readout = <<>>
    /\ buf_call = NoBufCall
    /\ irq = TRUE
    /\ crit = NoCrit

\* The state after pend_write(wmax) returned r; want is the length of the
\* data when write() made the call, else -1.  The producer keeps the
\* window (start, len) and the argument.
SetWindow(r, wmax, want) ==
    /\ buf' = r.buf
    /\ prod' = [Idle EXCEPT !.pc = "pended", !.start = r.start, !.len = r.len, !.want = want, !.wmax = wmax]

\* Producer: pend_write(wmax), possibly again before any finish_write.
PendWrite ==
    /\ prod.pc \in {"idle", "pended"}
    /\ \E wmax \in WMaxChoices : SetWindow(pend_write(buf, wmax), wmax, -1)
    /\ UNCHANGED <<cons, written, readout, buf_call>>
    /\ UNCHANGED <<irq, crit>>
    /\ UNCHANGED devVars
    /\ UNCHANGED report
    /\ UNCHANGED hidVars

\* Producer: write(w) is called with len(w) = want and does
\* pw = self.pend_write().
WriteBegin ==
    /\ prod.pc = "idle"
    /\ \E want \in WantChoices : SetWindow(pend_write(buf, -1), -1, want)
    /\ UNCHANGED <<cons, written, readout, buf_call>>
    /\ UNCHANGED <<irq, crit>>
    /\ UNCHANGED devVars
    /\ UNCHANGED report
    /\ UNCHANGED hidVars

\* write() that fills the whole window whatever the length of its data.
PlaceCounts_WholeWindow == IF prod.want = -1 THEN 0..prod.len ELSE {prod.len}

\* The byte counts the producer may place in its window: any, or in
\* write(w), to_w = min(len(w), len(pw)).
PlaceCounts == IF prod.want = -1 THEN 0..prod.len ELSE {Min(prod.want, prod.len)}

\* Producer: pw[:k] = w[:k]; the k bytes go to the start of the window it
\* was given.  The bytes are numbered in the order they are produced.
\* write() with to_w = 0 returns 0 here.
Place ==
    /\ prod.pc = "pended"
    /\ \E k \in PlaceCounts :
         /\ Len(written) + k <= MaxBytes
         /\ buf' = [buf EXCEPT !.b = [i \in 1..Len(buf.b) |-> IF i - 1 >= prod.start /\ i - 1 < prod.start + k THEN Len(written) + i - prod.start ELSE buf.b[i]]]
         /\ IF prod.want # -1 /\ k = 0
            THEN prod' = Idle /\ buf_call' = BufCall("write", 0, "none", prod, buf, <<>>, buf)
            ELSE prod' = [prod EXCEPT !.pc = "placed", !.k = k, !.wmax = -1] /\ UNCHANGED buf_call
    /\ UNCHANGED <<cons, written, readout>>
    /\ UNCHANGED <<irq, crit>>
    /\ UNCHANGED devVars
    /\ UNCHANGED report
    /\ UNCHANGED hidVars

\* The state after finish_write(prod.k) gave B2.
SetWritten(placed, B2) ==
    /\ buf' = B2
    /\ written' = written \o placed
    /\ buf_call' = BufCall("finish_write", prod.k, IF buf.n = buf.w THEN "fast" ELSE "slow", prod, buf, placed, B2)

\* Producer: finish_write(k), called directly or as the last step of
\* write().
FinishWrite ==
    /\ prod.pc = "placed"
    /\ SetWritten(SubSeq(buf.b, prod.start + 1, prod.start + prod.k), finish_write(buf, prod.k))
    /\ prod' = Idle
    /\ UNCHANGED <<cons, readout>>
    /\ UNCHANGED <<irq, crit>>
    /\ UNCHANGED devVars
    /\ UNCHANGED report
    /\ UNCHANGED hidVars

\* Consumer: pr = pend_read().
PendRead ==
    /\ cons.pc \in {"idle", "pended"}
    /\ cons' = [Idle EXCEPT !.pc = "pended", !.len = pend_read(buf)]
    /\ UNCHANGED <<buf, prod, written, readout, buf_call>>
    /\ UNCHANGED <<irq, crit>>
    /\ UNCHANGED devVars
    /\ UNCHANGED report
    /\ UNCHANGED hidVars

\* Consumer: readinto(b) is called with len(b) = want and does
\* pr = self.pend_read().
ReadintoBegin ==
    /\ cons.pc = "idle"
    /\ \E want \in WantChoices : cons' = [Idle EXCEPT !.pc = "pended", !.len = pend_read(buf), !.want = want]
    /\ UNCHANGED <<buf, prod, written, readout, buf_call>>
    /\ UNCHANGED <<irq, crit>>
    /\ UNCHANGED devVars
    /\ UNCHANGED report
    /\ UNCHANGED hidVars

\* The byte counts the consumer may copy from its view: any, or in
\* readinto(b), to_r = min(len(pr), len(b)).
CopyCounts == IF cons.want = -1 THEN 0..cons.len ELSE {Min(cons.len, cons.want)}

\* Consumer: b[:k] = pr[:k]; it copies the first k bytes of the view.
\* readinto() with to_r = 0 returns 0 here.
CopyOut ==
    /\ cons.pc = "pended"
    /\ \E k \in CopyCounts :
         IF cons.want # -1 /\ k = 0
         THEN cons' = Idle /\ buf_call' = BufCall("readinto", 0, "none", cons, buf, <<>>, buf)
         ELSE cons' = [cons EXCEPT !.pc = "copied", !.k = k, !.got = SubSeq(buf.b, 1, k)] /\ UNCHANGED buf_call
    /\ UNCHANGED <<buf, prod, written, readout>>
    /\ UNCHANGED <<irq, crit>>
    /\ UNCHANGED devVars
    /\ UNCHANGED report
    /\ UNCHANGED hidVars

\* The state after finish_read(cons.k) gave B2.
SetRead(B2) ==
    /\ buf' = B2
    /\ readout' = readout \o cons.got
    /\ buf_call' = BufCall("finish_read", cons.k, "none", cons, buf, cons.got, B2)

\* Consumer: finish_read(k), called directly or as the last step of
\* readinto().
FinishRead ==
    /\ cons.pc = "copied"
    /\ SetRead(finish_read(buf, cons.k))
    /\ cons' = Idle
    /\ UNCHANGED <<prod, written>>
    /\ UNCHANGED <<irq, crit>>
    /\ UNCHANGED devVars
    /\ UNCHANGED report
    /\ UNCHANGED hidVars

\* ------------------------------------------------------------------------
\* finish_write and finish_read statement by statement, with the
\* interrupt state of the machine.  While one of them is between
\* machine.disable_irq() and machine.enable_irq(ist) nothing else runs.
\* ------------------------------------------------------------------------

\* The code calling into the Buffer may itself run with interrupts
\* disabled, so machine.disable_irq() may return either state.
CallerIrq ==
    /\ crit.pc = "idle"
    /\ irq' = ~irq
    /\ UNCHANGED <<buf, prod, cons, written, readout, buf_call, crit>>
    /\ UNCHANGED devVars
    /\ UNCHANGED report
    /\ UNCHANGED hidVars

\* The counts finish_write or finish_read is called with: any count up to
\* one more than the length of the window or view that was pended (0
\* when none was).
FinishCounts(who) == 0..(who.len + 1)

\* The state after ist = machine.disable_irq() in op(c).
EnterCrit(op, c) ==
    /\ crit' = [op |-> op, pc |-> "assert", ist |-> irq, count |-> c, nbytes |-> c, i |-> 0, exc |-> FALSE, entry |-> buf]
    /\ irq' = FALSE

\* Producer: finish_write(c) is called and disables interrupts.  The
\* bytes of the window are left as they are: these runs follow the
\* indices, not the data.
FwEnter ==
    /\ crit.pc = "idle"
    /\ prod.pc \in {"idle", "pended"}
    /\ \E c \in FinishCounts(prod) : EnterCrit("finish_write", c)
    /\ UNCHANGED <<buf, prod, cons, written, readout, buf_call>>
    /\ UNCHANGED devVars
    /\ UNCHANGED report
    /\ UNCHANGED hidVars

\* Producer: the next statement of finish_write: the assertion and the
\* test of the fast path, one turn of the slow path's loop, or
\* self._w = len(self._b).
FwStep ==
    /\ crit.op = "finish_write"
    /\ crit.pc \in {"assert", "loop", "set_w"}
    /\ CASE crit.pc = "assert" /\ ~(crit.nbytes <= Len(buf.b) - buf.w) ->
              buf' = [buf EXCEPT !.err = TRUE] /\ crit' = [crit EXCEPT !.pc = "finally", !.exc = TRUE]
         [] crit.pc = "assert" /\ crit.nbytes <= Len(buf.b) - buf.w /\ buf.n = buf.w ->
              buf' = [buf EXCEPT !.n = buf.n + crit.nbytes] /\ crit' = [crit EXCEPT !.pc = "set_w"]
         [] crit.pc = "assert" /\ crit.nbytes <= Len(buf.b) - buf.w /\ buf.n # buf.w ->
              UNCHANGED buf /\ crit' = [crit EXCEPT !.pc = "loop"]
         [] crit.pc = "loop" /\ crit.nbytes > 0 ->
              buf' = [buf EXCEPT !.b[buf.n + 1] = buf.b[buf.w + 1], !.n = buf.n + 1, !.w = buf.w + 1] /\ crit' = [crit EXCEPT !.nbytes = crit.nbytes - 1]
         [] crit.pc = "loop" /\ crit.nbytes = 0 ->
              UNCHANGED buf /\ crit' = [crit EXCEPT !.pc = "set_w"]
         [] crit.pc = "set_w" ->
              buf' = [buf EXCEPT !.w = Len(buf.b)] /\ crit' = [crit EXCEPT !.pc = "finally"]
    /\ UNCHANGED <<irq, prod, cons, written, readout, buf_call>>
    /\ UNCHANGED devVars
    /\ UNCHANGED report
    /\ UNCHANGED hidVars

\* Consumer: finish_read(c) is called; with c = 0 it returns at once,
\* else it disables interrupts.
FrEnter ==
    /\ crit.pc = "idle"
    /\ cons.pc \in {"idle", "pended"}
    /\ \E c \in FinishCounts(cons) :
         IF c = 0
         THEN cons' = Idle /\ UNCHANGED <<irq, crit>>
         ELSE EnterCrit("finish_read", c) /\ UNCHANGED cons
    /\ UNCHANGED <<buf, prod, written, readout, buf_call>>
    /\ UNCHANGED devVars
    /\ UNCHANGED report
    /\ UNCHANGED hidVars

\* Consumer: the next statement of finish_read: the assertion with
\* i = 0 and self._n -= nbytes, or one turn of the loop.
FrStep ==
    /\ crit.op = "finish_read"
    /\ crit.pc \in {"assert", "loop"}
    /\ CASE crit.pc = "assert" /\ ~(crit.nbytes <= buf.n) ->
              buf' = [buf EXCEPT !.err = TRUE] /\ crit' = [crit EXCEPT !.pc = "finally", !.exc = TRUE]
         [] crit.pc = "assert" /\ crit.nbytes <= buf.n ->
              buf' = [buf EXCEPT !.n = buf.n - crit.nbytes] /\ crit' = [crit EXCEPT !.pc = "loop", !.i = 0]
         [] crit.pc = "loop" /\ crit.i < buf.n ->
              buf' = [buf EXCEPT !.b[crit.i + 1] = buf.b[crit.i + crit.nbytes + 1]] /\ crit' = [crit EXCEPT !.i = crit.i + 1]
         [] crit.pc = "loop" /\ crit.i >= buf.n ->
              UNCHANGED buf /\ crit' = [crit EXCEPT !.pc = "finally"]
    /\ UNCHANGED <<irq, prod, cons, written, readout, buf_call>>
    /\ UNCHANGED devVars
    /\ UNCHANGED report
    /\ UNCHANGED hidVars

\* A finally clause that is skipped when the assertion failed.
enable_irq_finally_OnSuccessOnly(ist, exc, cur) == IF exc THEN cur ELSE ist

\* finally: machine.enable_irq(ist).  The interrupt state after it, given
\* the saved state ist, whether the assertion failed, and the state cur
\* before it.
enable_irq_finally(ist, exc, cur) == ist

\* finish_write or finish_read leaves through its finally clause; the
\* call returns, or AssertionError goes on to the caller.
FinishExit ==
    /\ crit.pc = "finally"
    /\ irq' = enable_irq_finally(crit.ist, crit.exc, irq)
    /\ crit' = [NoCrit EXCEPT !.op = crit.op, !.exc = crit.exc]
    /\ IF crit.op = "finish_write" THEN prod' = Idle /\ UNCHANGED cons ELSE cons' = Idle /\ UNCHANGED prod
    /\ UNCHANGED <<buf, written, readout, buf_call>>
    /\ UNCHANGED devVars
    /\ UNCHANGED report
    /\ UNCHANGED hidVars

\* The setup packet with this bmRequestType and wIndex, the other fields 0.
Request(bmRequestType, wIndex) == <<bmRequestType, 0, 0, 0, wIndex % 256, wIndex \div 256, 0, 0>>

\* GET_PROTOCOL to interface 0.
GetProtocolRequest == <<161, REQ_CONTROL_GET_PROTOCOL, 0, 0, 0, 0, 1, 0>>

\* The HID class requests tried on interface 0: SET_IDLE and SET_PROTOCOL
\* with a wValue below and above 255, and GET_PROTOCOL.
HidClassRequests == {<<33, b, v % 256, v \div 256, 0, 0, 0, 0>> : b \in {REQ_CONTROL_SET_IDLE, REQ_CONTROL_SET_PROTOCOL}, v \in {1, 256}} \cup {GetProtocolRequest}

\* The control requests tried: class requests to a device, an interface,
\* an endpoint and an "other" recipient, with wIndex an interface number,
\* an endpoint address, or a value with a non-zero upper byte; and
\* GET_PROTOCOL.
ControlRequests == {Request(t, x) : t \in {32, 33, 34, 35}, x \in {0, 1, 129, 130, 256}} \cup {GetProtocolRequest}

\* The stages of a control transfer.
Stages == {STAGE_SETUP, STAGE_DATA, STAGE_ACK}

\* Low-level driver: a control transfer is in progress; _control_xfer_cb.
ControlXfer ==
    /\ kinds # <<>>
    /\ ~MidEnum
    /\ \E request \in ControlRequests, stage \in Stages :
         \E S \in {USBDevice_control_xfer_cb(St, stage, request, kinds)} :
             Set(S) /\ call' = Call("control", 0, request[5] + request[6] * 256, "None", "none", request, stage, S)
    /\ UNCHANGED <<kinds, itfs, cfg_desc, groups, built, strs, itf_min, cfg_next, opens>>
    /\ UNCHANGED <<usbd, dsc>>
    /\ UNCHANGED bufVars
    /\ UNCHANGED report
    /\ UNCHANGED hidVars

\* Low-level driver: a HID class request that sets or reads the idle rate
\* or the protocol of the object at interface 0 is in progress;
\* _control_xfer_cb.
HidClassXfer ==
    /\ kinds # <<>>
    /\ ~MidEnum
    /\ \E request \in HidClassRequests, stage \in Stages :
         \E S \in {USBDevice_control_xfer_cb(St, stage, request, kinds)} :
             Set(S) /\ call' = Call("control", 0, request[5] + request[6] * 256, "None", "none", request, stage, S)
    /\ UNCHANGED <<kinds, itfs, cfg_desc, groups, built, strs, itf_min, cfg_next, opens>>
    /\ UNCHANGED <<usbd, dsc>>
    /\ UNCHANGED bufVars
    /\ UNCHANGED report
    /\ UNCHANGED hidVars

\* Application: object i calls self.stall(ep_addr) or self.stall(ep_addr,
\* True) on an endpoint address of its own or of another object.
AppStall ==
    /\ kinds # <<>>
    /\ ~MidEnum
    /\ \E i \in 1..Len(objs), ep_addr \in ObjEps(objs), args \in {"get", "set"} :
         \E S \in {USBInterface_stall(St, i, ep_addr, args)} :
             Set(S) /\ call' = Call("stall", i, ep_addr, "None", args, 0, 0, S)
    /\ UNCHANGED <<kinds, itfs, cfg_desc, groups, built, strs, itf_min, cfg_next, opens>>
    /\ UNCHANGED <<usbd, dsc>>
    /\ UNCHANGED bufVars
    /\ UNCHANGED report
    /\ UNCHANGED hidVars

\* No send_report call is in progress.
NoReport == [pc |-> "idle", itf |-> 0, left |-> 0]

\* The timeout_ms arguments tried.
TimeoutChoices == {0, SEND_REPORT_TIMEOUT_MS}

\* Application: a HID object's send_report(report_data, timeout_ms) is
\* called; the deadline is set.
SendReportCall ==
    /\ report.pc = "idle"
    /\ kinds # <<>>
    /\ ~MidEnum
    /\ \E i \in 1..Len(kinds), timeout_ms \in TimeoutChoices :
         /\ kinds[i].cls = "HID"
         /\ report' = [pc |-> "loop", itf |-> i, left |-> timeout_ms]
    /\ UNCHANGED devVars
    /\ UNCHANGED bufVars
    /\ UNCHANGED hidVars

\* The state after a step r of send_report: the call goes on, or it
\* ended with the driver outcome `out`.
SendReportStep(r, out) ==
    IF r.pc = "done"
    THEN /\ report' = NoReport
         /\ Set(r.S)
         /\ call' = Call("send_report", report.itf, objs[report.itf].eps[1], "None", IF r.how = "none" THEN out[1] ELSE r.how, out[2], out[3], r.S)
    ELSE /\ report' = [report EXCEPT !.pc = r.pc, !.left = r.left]
         /\ UNCHANGED <<eps, ep_cbs, objs, inflight, trace, call>>

\* Application: send_report tests its while loop.
SendReportPoll ==
    /\ report.pc = "loop"
    /\ ~MidEnum
    /\ SendReportStep(send_report_loop(St, report.itf, report.left), <<"none", 0, 0>>)
    /\ UNCHANGED <<kinds, itfs, cfg_desc, groups, built, strs, itf_min, cfg_next, opens>>
    /\ UNCHANGED <<usbd, dsc>>
    /\ UNCHANGED bufVars
    /\ UNCHANGED hidVars

\* Application: send_report tests is_open after the loop.
SendReportCheck ==
    /\ report.pc = "check"
    /\ ~MidEnum
    /\ SendReportStep(send_report_check(St, report.itf, report.left), <<"none", 0, 0>>)
    /\ UNCHANGED <<kinds, itfs, cfg_desc, groups, built, strs, itf_min, cfg_next, opens>>
    /\ UNCHANGED <<usbd, dsc>>
    /\ UNCHANGED bufVars
    /\ UNCHANGED hidVars

\* Application: send_report submits the report and returns.
SendReportSubmit ==
    /\ report.pc = "submit"
    /\ ~MidEnum
    /\ \E out \in SubmitOutcomes :
         SendReportStep([pc |-> "done", left |-> report.left, how |-> "none", S |-> send_report_submit(St, report.itf, out[1], out[2], out[3])], out)
    /\ UNCHANGED <<kinds, itfs, cfg_desc, groups, built, strs, itf_min, cfg_next, opens>>
    /\ UNCHANGED <<usbd, dsc>>
    /\ UNCHANGED bufVars
    /\ UNCHANGED hidVars

\* No HIDInterface was constructed yet.
NoHid == [made |-> FALSE, k |-> HIDKind, has_buf |-> FALSE, buf |-> <<>>, o |-> NewObj(HIDKind)]

NoHidCall == [op |-> "none", stage |-> 0, request |-> <<>>, ret |-> [t |-> "none", b |-> <<>>], exc |-> "none", set_report |-> NoSetReport, pre |-> NoHid]

HidInit == hid = NoHid /\ hid_call = NoHidCall

\* The constructor arguments tried: 0..MaxExtra extra descriptors (each
\* <<type, length of its data>>), set_report_buf None (-1) or a bytearray
\* of length 0, 3 or MaxReportLen, protocol 0 (none) or 2 (mouse).
ExtraChoices == {[i \in 1..n |-> <<DESC_PHYSICAL_TYPE, i>>] : n \in 0..MaxExtra}

SetReportBufChoices == {-1, 0, 3, MaxReportLen}

\* Application: HIDInterface(report_descriptor, extra_descriptors,
\* set_report_buf, protocol)
HidNew ==
    /\ ~hid.made
    /\ \E extra \in ExtraChoices, n \in SetReportBufChoices, protocol \in {0, 2} :
         hid' = [made |-> TRUE, k |-> [HIDKind EXCEPT !.extra = extra, !.protocol = protocol], has_buf |-> n # -1, buf |-> [i \in 1..n |-> i], o |-> NewObj([HIDKind EXCEPT !.protocol = protocol])]
    /\ hid_call' = [NoHidCall EXCEPT !.op = "new"]
    /\ UNCHANGED devVars
    /\ UNCHANGED bufVars
    /\ UNCHANGED report

\* init's size pass: desc_cfg(desc, 0, 0, []) on a Descriptor without a
\* buffer (device.py:146-149).
HidDescCfg ==
    /\ hid.made
    /\ hid' = [hid EXCEPT !.o = HID_desc_cfg(Descriptor(FALSE, <<>>), hid.k, hid.o, 0, 0, <<>>).obj]
    /\ hid_call' = [NoHidCall EXCEPT !.op = "desc_cfg", !.pre = hid]
    /\ UNCHANGED devVars
    /\ UNCHANGED bufVars
    /\ UNCHANGED report

\* A setup packet: bmRequestType, bRequest, wValue, wIndex = 0, wLength.
HidRequest(bmRequestType, bRequest, wValue, wLength) == <<bmRequestType, bRequest, wValue % 256, wValue \div 256, 0, 0, wLength % 256, wLength \div 256>>

\* The requests tried: standard GET_DESCRIPTOR of the HID, report and
\* physical descriptors; the class requests, SET_IDLE and SET_PROTOCOL
\* with several values, SET_REPORT (output report 1) with wLength below,
\* at and above the buffer lengths; and a vendor request.
HidRequests ==
    {HidRequest(129, REQ_CONTROL_GET_DESCRIPTOR, t * 256, 0) : t \in {DESC_HID_TYPE, DESC_REPORT_TYPE, DESC_PHYSICAL_TYPE}}
    \cup {HidRequest(161, b, 0, 1) : b \in {REQ_CONTROL_GET_REPORT, REQ_CONTROL_GET_IDLE, REQ_CONTROL_GET_PROTOCOL}}
    \cup {HidRequest(33, REQ_CONTROL_SET_IDLE, v, 0) : v \in {0, 768}}
    \cup {HidRequest(33, REQ_CONTROL_SET_PROTOCOL, v, 0) : v \in {0, 1, 256}}
    \cup {HidRequest(33, REQ_CONTROL_SET_REPORT, 513, n) : n \in {0, 3, MaxReportLen, MaxReportLen + 1}}
    \cup {HidRequest(65, REQ_CONTROL_SET_REPORT, 0, 3)}

\* The state after handle_interface_control_xfer returned r.
HidControlSet(stage, request, r) ==
    /\ hid' = r.H
    /\ hid_call' = [op |-> "control", stage |-> stage, request |-> request, ret |-> r.ret, exc |-> r.exc, set_report |-> r.set_report, pre |-> hid]

\* Low-level driver: a control transfer stage for the HID interface
\* (through _control_xfer_cb, device.py:300-303).
HidControl ==
    /\ hid.made
    /\ \E stage \in {STAGE_SETUP, STAGE_DATA, STAGE_ACK}, request \in HidRequests :
         HidControlSet(stage, request, HID_handle_interface_control_xfer(hid, stage, request))
    /\ UNCHANGED devVars
    /\ UNCHANGED bufVars
    /\ UNCHANGED report

Init == DevInit /\ BufInit /\ report = NoReport /\ HidInit

Next == DoInit \/ BusReset \/ OpenItf \/ AppSubmit \/ XferDone

Spec == Init /\ [][Next]_vars

CtlNext == DoInit \/ BusReset \/ OpenItf \/ ControlXfer

SpecCtl == Init /\ [][CtlNext]_vars

StallNext == DoInit \/ BusReset \/ OpenItf \/ AppStall

SpecStall == Init /\ [][StallNext]_vars

HidNext == DoInit \/ BusReset \/ OpenItf \/ XferDone \/ SendReportCall \/ SendReportPoll \/ SendReportCheck \/ SendReportSubmit

SpecHid == Init /\ [][HidNext]_vars

BufNext == PendWrite \/ Place \/ FinishWrite \/ PendRead \/ CopyOut \/ FinishRead

SpecBuf == Init /\ [][BufNext]_vars

IoNext == WriteBegin \/ Place \/ FinishWrite \/ ReadintoBegin \/ CopyOut \/ FinishRead

SpecBufIo == Init /\ [][IoNext]_vars

HidCtlNext == HidNew \/ HidDescCfg \/ HidControl

SpecHidCtl == Init /\ [][HidCtlNext]_vars

IrqNext == FwEnter \/ FwStep \/ FrEnter \/ FrStep \/ FinishExit \/ CallerIrq \/ (crit.pc = "idle" /\ (PendWrite \/ PendRead))

SpecIrq == Init /\ [][IrqNext]_vars

InitNext == UsbdBoot \/ DoInitActive \/ BusReset \/ OpenItf \/ HidClassXfer

SpecInit == Init /\ [][InitNext]_vars

DescNext == DescNew \/ DescAppend \/ DescPack \/ DescPackInto

SpecDesc == Init /\ [][DescNext]_vars

\* The transfers are those handle_open submits and those the callbacks submit.
NestNext == DoInit \/ BusReset \/ OpenItf \/ XferDoneResubmit

SpecNest == Init /\ [][NestNext]_vars

LateNext == DoInit \/ BusResetLate \/ OpenItf \/ AppSubmit \/ XferDone \/ LateXferDone

SpecLate == Init /\ [][LateNext]_vars

\* ------------------------------------------------------------------------
\* Properties of the device manager
\* ------------------------------------------------------------------------

\* The events of the last handler's trace that are of kind ev.
TraceEvs(ev) == {j \in 1..Len(trace) : trace[j].ev = ev}

\* The low-level driver has reported every group of the configuration.
Enumerated == kinds # <<>> /\ cfg_next = Len(groups) + 1

\* The last entry was a submit_xfer of an open interface on an endpoint of
\* the endpoint table whose pending-transfer entry was set.
SubmitOnPending == call.op = "submit" /\ call.pre_open /\ call.pre_known /\ Truthy(call.pre)

\* C1: a submit on an endpoint that already has a transfer pending fails
\* with RuntimeError("xfer_pending"), leaves the endpoint's entry of
\* _ep_cbs (callback or sentinel) as it was and makes no low-level submit.
C1_SubmitOnPendingFails ==
    SubmitOnPending =>
        /\ call.exc = "xfer_pending"
        /\ CbsGet(ep_cbs, call.ep) = call.pre
        /\ TraceEvs("usbd_submit") = {}
        /\ TraceEvs("mark") = {}

C1_Witness == SubmitOnPending /\ call.exc = "xfer_pending" /\ call.pre = "cb" /\ call.cb = "None" /\ ep_cbs[call.ep] = "cb"

\* C2: the low-level driver never holds more than one accepted and not
\* yet completed transfer on one endpoint address.
C2_OneInFlightPerEndpoint == \A e \in DOMAIN inflight : Len(inflight[e]) <= 1

C2_Witness == call.op = "submit" /\ call.exc = "xfer_pending" /\ Len(inflight[call.ep]) = 1

\* The last entry was a submit_xfer that reached the low-level driver,
\* which completed the transfer before returning.
SyncSubmit == call.op = "submit" /\ call.outcome = "sync" /\ call.exc = "none"

\* C3: the entry of _ep_cbs is written before the low-level submit is
\* called, so a transfer-complete callback that fires inside the low-level
\* submit finds the entry, clears it and invokes the completion callback,
\* and the endpoint is not pending when submit_xfer returns.
C3_SyncCompletionSeesEntry ==
    SyncSubmit =>
        /\ Len(trace) = (IF call.cb = "cb" THEN 4 ELSE 3)
        /\ trace[1].ev = "mark" /\ trace[1].ep = call.ep
        /\ trace[2].ev = "usbd_submit" /\ trace[2].ep = call.ep
        /\ trace[2].cbs[call.ep] = (IF call.cb = "cb" THEN "cb" ELSE "True")
        /\ trace[3].ev = "clear" /\ trace[3].ep = call.ep
        /\ call.cb = "cb" => (trace[4].ev = "done_cb" /\ trace[4].ep = call.ep /\ trace[4].res = call.res /\ trace[4].n = call.n)
        /\ ~Truthy(ep_cbs[call.ep])

C3_Witness == SyncSubmit /\ call.cb = "cb" /\ TraceEvs("done_cb") # {} /\ ~Truthy(ep_cbs[call.ep])

\* The callback given by the submit whose transfer the last _xfer_cb
\* completed ("None" if it gave none).
Owed == Head(call.pre_held)

\* C4 (first half): _xfer_cb clears the endpoint's entry first and then
\* invokes the callback found in it, if any, with (ep_addr, result,
\* xferred_bytes), once.
C4_ClearThenCallback ==
    call.op = "xfer" =>
        /\ trace[1].ev = "clear" /\ trace[1].ep = call.ep
        /\ ~Truthy(ep_cbs[call.ep])
        /\ Len(trace) = (IF call.pre = "cb" THEN 2 ELSE 1)
        /\ call.pre = "cb" => (trace[2].ev = "done_cb" /\ trace[2].ep = call.ep /\ trace[2].res = call.res /\ trace[2].n = call.n /\ trace[2].cbs[call.ep] = "None")

\* C4: as C4_ClearThenCallback, and the completion of every accepted
\* submit that gave a callback invokes that callback exactly once (the
\* driver drops what it holds on a bus reset, so a completion it reports
\* is that of a submit made since the last reset).
C4_CallbackExactlyOnce ==
    /\ C4_ClearThenCallback
    /\ call.op = "xfer" => Cardinality(TraceEvs("done_cb")) = (IF Owed = "cb" THEN 1 ELSE 0)

\* C7: once every group has been configured, the endpoint table maps
\* every endpoint address of every interface object to that object.
C7_EndpointTableComplete ==
    (Enumerated /\ Len(kinds) >= 2) =>
        \A i \in 1..Len(objs) : \A j \in 1..Len(objs[i].eps) :
            objs[i].eps[j] \in DOMAIN eps /\ eps[objs[i].eps[j]] = i

\* What handle_open of object i finds in the tables tabs = [eps, cbs]: each
\* of the object's endpoint addresses in the endpoint table, mapped to the
\* object, and not pending.
OwnEndpointsReady(i, tabs) ==
    \A j \in 1..Len(objs[i].eps) :
        /\ objs[i].eps[j] \in DOMAIN tabs.eps
        /\ tabs.eps[objs[i].eps[j]] = i
        /\ ~Truthy(CbsGet(tabs.cbs, objs[i].eps[j]))

\* C8: when handle_open of an object fires, every endpoint address of all
\* of its USB interfaces is in the endpoint table, mapped to the object and
\* not pending, and a submit made inside handle_open on any of them is not
\* refused.
C8_OpenSeesOwnEndpoints ==
    /\ \A j \in TraceEvs("handle_open") : OwnEndpointsReady(trace[j].itf, trace[j])
    /\ (call.op = "open_itf" /\ TraceEvs("handle_open") # {}) => call.exc \in {"none", "OSError"}

\* The interface numbers of the interface descriptors in a slice.
SliceItfNums(desc) == {desc[DescList(desc, 0)[j][1] + DESC_OFFSET_INTERFACE_NUM] : j \in {x \in 1..Len(DescList(desc, 0)) : DescList(desc, 0)[x][3] = STD_DESC_INTERFACE_TYPE}}

\* The highest interface number registered for object i.
HighestItf(i) == CHOOSE x \in DOMAIN itfs : itfs[x] = i /\ \A y \in DOMAIN itfs : itfs[y] = i => y <= x

\* C9: in one enumeration every interface object gets exactly one
\* handle_open; a configuration-applied callback fires handle_open of the
\* object it belongs to exactly when its slice covers the object's highest
\* interface number, not on a callback for a lower one.
C9_OneOpenPerObject ==
    /\ \A i \in DOMAIN opens : opens[i] <= 1
    /\ Enumerated => \A i \in DOMAIN opens : opens[i] = 1
    /\ call.op = "open_itf" =>
        /\ \A j \in TraceEvs("handle_open") : trace[j].itf = call.itf
        /\ Cardinality(TraceEvs("handle_open")) = (IF HighestItf(call.itf) \in SliceItfNums(groups[cfg_next - 1]) THEN 1 ELSE 0)

C9_Witness == Enumerated /\ \E i \in 1..Len(kinds) : num_itfs(kinds[i]) > 1 /\ ~kinds[i].iad /\ opens[i] = 1 /\ call.op = "open_itf" /\ call.itf = i /\ call.res = HighestItf(i)

\* C10: on a bus reset every entry of _ep_cbs is cleared before any
\* handle_reset is called: each handle_reset, and there is one for every
\* registered object, finds no endpoint pending.
C10_ResetClearsBeforeHooks ==
    call.op = "reset" =>
        /\ \A j \in TraceEvs("handle_reset") : PendingEps(trace[j].cbs) = {}
        /\ \A i \in 1..Len(objs) : \E j \in TraceEvs("handle_reset") : trace[j].itf = i
        /\ PendingEps(ep_cbs) = {}

C10_Witness == call.op = "reset" /\ call.pre_pending # {} /\ TraceEvs("handle_reset") # {} /\ PendingEps(ep_cbs) = {}

\* The handle_reset calls the last _reset_cb made on object i.
ResetCalls(i) == {j \in TraceEvs("handle_reset") : trace[j].itf = i}

\* C11: a bus reset calls handle_reset of every registered interface
\* object exactly once, also of an object that occupies more than one
\* USB interface number.
C11_ResetHookOnce ==
    call.op = "reset" => \A i \in 1..Len(objs) : Cardinality(ResetCalls(i)) = 1

\* C12: after a bus reset every interface object is closed, no endpoint
\* is pending, and both stay so, every submit_xfer failing with "Not
\* open", until a configuration-applied callback has fired the object's
\* handle_open again.
C12_ResetReturnsToIdle ==
    /\ call.op = "reset" => (\A i \in 1..Len(objs) : ~objs[i].open) /\ PendingEps(ep_cbs) = {}
    /\ \A i \in 1..Len(objs) : objs[i].open => opens[i] >= 1
    /\ (\A i \in 1..Len(objs) : opens[i] = 0) => PendingEps(ep_cbs) = {}
    /\ (call.op = "submit" /\ opens[call.itf] = 0) => (call.exc = "Not open" /\ PendingEps(ep_cbs) = {})

\* A submit refused after a bus reset that followed an enumeration.
C12_Witness == call.op = "submit" /\ call.exc = "Not open" /\ call.pre_known /\ opens[call.itf] = 0 /\ ~objs[call.itf].open

\* C15: submit_xfer of an interface object that is not open fails with
\* RuntimeError("Not open"), leaves _ep_cbs as it was and does not call
\* the low-level driver.
C15_SubmitNotOpenFails ==
    (call.op = "submit" /\ ~call.pre_open) =>
        /\ call.exc = "Not open"
        /\ ep_cbs = call.pre_cbs
        /\ TraceEvs("usbd_submit") = {}
        /\ TraceEvs("mark") = {}
        /\ inflight[call.ep] = call.pre_held

\* A submit of an object that was never opened.
C15_Witness == call.op = "submit" /\ ~call.pre_open /\ call.exc = "Not open" /\ ~call.pre_known /\ eps = <<>>

\* The last entry was a submit_xfer that reached the low-level driver,
\* which rejected the transfer.
DriverRejected == call.op = "submit" /\ call.outcome \in {"refused", "error"} /\ TraceEvs("usbd_submit") # {}

\* C16: when the low-level driver rejects a submission,
\* USBInterface.submit_xfer fails towards its caller with an error that is
\* neither "Not open" nor "xfer_pending"; it does not return as if the
\* transfer had been queued.
C16_RejectionSurfaces ==
    DriverRejected => call.exc \notin {"none", "Not open", "xfer_pending"}

\* The handlers the last _control_xfer_cb invoked.
HandlerCalls == TraceEvs("handle_device_control_xfer") \cup TraceEvs("handle_interface_control_xfer") \cup TraceEvs("handle_endpoint_control_xfer")

\* The recipient of the last control request.
Recipient == split_bmRequestType(call.res[1])[1]

\* The interface object the last control request resolves to, 0 if none:
\* for a device or interface recipient the object in the interface table
\* under the request's wIndex, for an endpoint recipient the object in the
\* endpoint table under it.
ControlTarget ==
    IF Recipient \in {REQ_RECIPIENT_DEVICE, REQ_RECIPIENT_INTERFACE} THEN ItfsGet(itfs, call.ep)
    ELSE IF Recipient = REQ_RECIPIENT_ENDPOINT THEN EpsGet(eps, call.ep)
    ELSE 0

\* The handler that belongs to the last control request's recipient.
ControlHandler ==
    IF Recipient = REQ_RECIPIENT_DEVICE THEN "handle_device_control_xfer"
    ELSE IF Recipient = REQ_RECIPIENT_INTERFACE THEN "handle_interface_control_xfer"
    ELSE "handle_endpoint_control_xfer"

\* C13: a control request that resolves to an interface object invokes
\* exactly one handler, the one of its recipient, on that object, with the
\* stage and request it was given, and, where the handler returned,
\* returns the handler's result unchanged; _control_xfer_cb raises no
\* error of its own.
C13_ControlRoutedToOneHandler ==
    (call.op = "control" /\ ControlTarget # 0) =>
        /\ call.exc # "RuntimeError"
        /\ Cardinality(HandlerCalls) = 1
        /\ \A j \in HandlerCalls :
             /\ trace[j].ev = ControlHandler
             /\ trace[j].itf = ControlTarget
             /\ trace[j].res = call.res
             /\ trace[j].n = call.n
        /\ call.exc = "none" => (call.ret = call.hret /\ call.ret # "None")

\* An interface request that the HID object answered with bytes.
C13_Witness == call.op = "control" /\ Recipient = REQ_RECIPIENT_INTERFACE /\ ControlTarget # 0 /\ call.exc = "none" /\ call.ret = "bytes" /\ TraceEvs("handle_interface_control_xfer") # {}

\* C14: a control request that resolves to no interface object makes
\* _control_xfer_cb raise: no handler is invoked and nothing is returned.
C14_UnresolvedControlRaises ==
    (call.op = "control" /\ ControlTarget = 0) =>
        /\ call.exc = "RuntimeError"
        /\ HandlerCalls = {}
        /\ call.ret = "None"

\* A request for an endpoint address that is not in the endpoint table,
\* after an enumeration built the table.
C14_Witness == call.op = "control" /\ call.exc = "RuntimeError" /\ Recipient = REQ_RECIPIENT_ENDPOINT /\ call.ep \notin DOMAIN eps /\ eps # <<>>

\* C17: send_report returns whether it succeeded: when it submitted the
\* report and the low-level driver took it, it returns True.
C17_SendReportReturnsTrue ==
    (call.op = "send_report" /\ call.outcome \in {"accepted", "sync"} /\ call.exc = "none") => call.ret = "True"

\* The last send_report gave up: its deadline passed with the transfer
\* before it still pending, or the interface was closed.
GaveUp == call.op = "send_report" /\ call.outcome \in {"timeout", "closed"}

\* C18: a send_report that gives up returns False and has submitted
\* nothing: _ep_cbs and what the low-level driver holds are as they were,
\* and after a timeout the endpoint is still pending, so that a submit on
\* it is refused with "xfer_pending".
C18_GivingUpSubmitsNothing ==
    GaveUp =>
        /\ call.ret = "False"
        /\ call.exc = "none"
        /\ TraceEvs("usbd_submit") = {} /\ TraceEvs("mark") = {}
        /\ ep_cbs = call.pre_cbs
        /\ inflight[call.ep] = call.pre_held
        /\ call.outcome = "timeout" =>
             /\ Truthy(ep_cbs[call.ep])
             /\ USBInterface_submit_xfer(St, call.itf, call.ep, "None", "accepted", 0, 0).exc = "xfer_pending"

\* A send_report that timed out behind a transfer the driver still holds.
C18_Witness == GaveUp /\ call.outcome = "timeout" /\ call.ret = "False" /\ Len(inflight[call.ep]) = 1 /\ Truthy(ep_cbs[call.ep])

\* wTotalLength of the configuration descriptor given to the driver.
TotalLength == cfg_desc[3] + 256 * cfg_desc[4]

\* C19: the size pass and the content pass of init advance the cursor
\* alike: the real buffer is as long as the dry run computed, the content
\* pass ends at the end of the buffer, which did not grow and took every
\* field, and the header's wTotalLength is that length.
C19_PassesAgree ==
    kinds # <<>> =>
        /\ Len(cfg_desc) = built.dry_o
        /\ built.o = Len(cfg_desc)
        /\ ~built.err
        /\ TotalLength = Len(cfg_desc)

\* init of two objects or more behind the built-in driver's descriptor.
C19_Witness == Len(kinds) >= 2 /\ built.builtin = BUILTIN_DEFAULT /\ built.dry_o > Len(BUILTIN_DEFAULT.desc_cfg) /\ TotalLength = built.dry_o

\* The endpoint numbers object i uses: those of the addresses it saved.
UsedEpNums(i) == {objs[i].eps[j] % EP_IN_FLAG : j \in 1..Len(objs[i].eps)}

\* C20 as claimed: the interface and endpoint numbers init hands to
\* successive objects increase strictly, start after the built-in
\* driver's reserved ranges, endpoint numbers at 1 or above, and the
\* ranges of two objects do not overlap; each object is in _itfs under
\* exactly its num_itfs() consecutive interface numbers, and the header's
\* interface count is the reserved count plus the sum of num_itfs().
C20_NumbersIncrease ==
    kinds # <<>> =>
        /\ Len(built.handed) = Len(kinds)
        /\ \A i \in 1..Len(kinds) :
             /\ built.handed[i][1] >= built.builtin.itf_max
             /\ built.handed[i][2] >= built.builtin.ep_max
             /\ built.handed[i][2] >= 1
             /\ {x \in DOMAIN itfs : itfs[x] = i} = built.handed[i][1]..(built.handed[i][1] + num_itfs(kinds[i]) - 1)
             /\ UsedEpNums(i) \subseteq built.handed[i][2]..(built.handed[i][2] + num_eps(kinds[i]) - 1)
        /\ \A i \in 1..Len(kinds) : \A j \in 1..Len(kinds) : i < j =>
             /\ built.handed[i][1] < built.handed[j][1]
             /\ built.handed[i][2] < built.handed[j][2]
             /\ built.handed[i][1] + num_itfs(kinds[i]) <= built.handed[j][1]
             /\ built.handed[i][2] + num_eps(kinds[i]) <= built.handed[j][2]
        /\ cfg_desc[5] = built.builtin.itf_max + SumSeq([i \in 1..Len(kinds) |-> num_itfs(kinds[i])])

\* C20: the interface numbers init hands to successive objects increase
\* strictly; the endpoint numbers never decrease and increase strictly
\* past every object whose num_eps() is at least 1, an object with
\* num_eps() of 0 leaving the next object the same endpoint number; both
\* start after the built-in driver's reserved ranges, endpoint numbers at
\* 1 or above, and the ranges of two objects do not overlap; each object
\* is in _itfs under exactly its num_itfs() consecutive interface numbers,
\* and the header's interface count is the reserved count plus the sum of
\* num_itfs().
C20_NumbersNeverOverlap ==
    kinds # <<>> =>
        /\ Len(built.handed) = Len(kinds)
        /\ \A i \in 1..Len(kinds) :
             /\ built.handed[i][1] >= built.builtin.itf_max
             /\ built.handed[i][2] >= built.builtin.ep_max
             /\ built.handed[i][2] >= 1
             /\ {x \in DOMAIN itfs : itfs[x] = i} = built.handed[i][1]..(built.handed[i][1] + num_itfs(kinds[i]) - 1)
             /\ UsedEpNums(i) \subseteq built.handed[i][2]..(built.handed[i][2] + num_eps(kinds[i]) - 1)
        /\ \A i \in 1..Len(kinds) : \A j \in 1..Len(kinds) : i < j =>
             /\ built.handed[i][1] < built.handed[j][1]
             /\ built.handed[i][2] <= built.handed[j][2]
             /\ num_eps(kinds[i]) >= 1 => built.handed[i][2] < built.handed[j][2]
             /\ (j = i + 1 /\ num_eps(kinds[i]) = 0) => built.handed[i][2] = built.handed[j][2]
             /\ built.handed[i][1] + num_itfs(kinds[i]) <= built.handed[j][1]
             /\ built.handed[i][2] + num_eps(kinds[i]) <= built.handed[j][2]
        /\ cfg_desc[5] = built.builtin.itf_max + SumSeq([i \in 1..Len(kinds) |-> num_itfs(kinds[i])])

\* init, behind the built-in driver, of an object with an endpoint, an
\* object without endpoints and a third object.
C20_Witness == Len(kinds) = 3 /\ num_eps(kinds[1]) >= 1 /\ num_eps(kinds[2]) = 0 /\ built.builtin = BUILTIN_DEFAULT /\ built.handed[1][2] < built.handed[2][2] /\ built.handed[2][2] = built.handed[3][2] /\ cfg_desc[5] = built.builtin.itf_max + 3

\* The first byte (1-based) of the interface descriptors of configuration
\* descriptor b that carry interface number itf_num.
ItfDescStarts(b, itf_num) == {DescList(b, STD_DESC_CONFIG_LEN)[j][1] : j \in {x \in 1..Len(DescList(b, STD_DESC_CONFIG_LEN)) : DescList(b, STD_DESC_CONFIG_LEN)[x][3] = STD_DESC_INTERFACE_TYPE /\ b[DescList(b, STD_DESC_CONFIG_LEN)[x][1] + DESC_OFFSET_INTERFACE_NUM] = itf_num}}

\* C21: the size pass does not change what the content pass of
\* HIDInterface.desc_cfg emits: the interface descriptor of every HID
\* object in the configuration descriptor init built carries, as its
\* bInterfaceProtocol (byte 7), the protocol given to the constructor.
C21_ProtocolAsConstructed ==
    \A i \in 1..Len(kinds) :
      kinds[i].cls = "HID" =>
        /\ ItfDescStarts(cfg_desc, built.handed[i][1]) # {}
        /\ \A s \in ItfDescStarts(cfg_desc, built.handed[i][1]) : cfg_desc[s + 7] = kinds[i].protocol

\* The last call was a GET_DESCRIPTOR of the HID descriptor at SETUP stage.
GotHidDescriptor == hid_call.op = "control" /\ hid_call.stage = STAGE_SETUP /\ hid_call.request[1] = 129 /\ hid_call.request[2] = REQ_CONTROL_GET_DESCRIPTOR /\ hid_call.request[4] = DESC_HID_TYPE

\* C22 as stated: for k extra descriptors get_hid_descriptor returns
\* 9 + 3k bytes whose byte 4 is k + 1, the number of descriptors.
C22_Byte4IsNumDescriptors ==
    GotHidDescriptor =>
      /\ Len(hid_call.ret.b) = 9 + 3 * Len(hid.k.extra)
      /\ hid_call.ret.b[4 + 1] = Len(hid.k.extra) + 1

\* C22 (amended): for k extra descriptors get_hid_descriptor returns
\* 9 + 3k bytes; byte 0 (bLength) is 9 + 3k, byte 4 (bCountryCode) is 0
\* and byte 5 (bNumDescriptors) is k + 1.
C22_HidDescriptorLayout ==
    GotHidDescriptor =>
      /\ hid_call.exc = "none" /\ hid_call.ret.t = "bytes"
      /\ Len(hid_call.ret.b) = 9 + 3 * Len(hid.k.extra)
      /\ hid_call.ret.b[0 + 1] = 9 + 3 * Len(hid.k.extra)
      /\ hid_call.ret.b[4 + 1] = 0
      /\ hid_call.ret.b[5 + 1] = Len(hid.k.extra) + 1

\* The spec's scenario: two extra descriptors, 15 bytes, 3 descriptors.
C22_Witness == GotHidDescriptor /\ Len(hid.k.extra) = 2 /\ Len(hid_call.ret.b) = 15 /\ hid_call.ret.b[6] = 3 /\ hid_call.ret.b[5] = 0

\* The last call was a class SET_REPORT for an object with a (non-empty)
\* set_report_buf.
SetReportCall == hid_call.op = "control" /\ split_bmRequestType(hid_call.request[1])[2] = REQ_TYPE_CLASS /\ hid_call.request[2] = REQ_CONTROL_SET_REPORT /\ BufTruthy(hid_call.pre)

\* wLength of the last request.
SetReportLength == hid_call.request[7] + 256 * hid_call.request[8]

\* C23: for an object with a set_report_buf, a SET_REPORT with wLength
\* below the buffer's length returns, at SETUP stage, a view of exactly
\* the first wLength bytes of the buffer, and at DATA stage calls
\* handle_set_report with a view of exactly wLength bytes; with wLength at
\* least the buffer's length both use the whole buffer.
C23_SetReportView ==
    SetReportCall =>
      /\ hid_call.exc = "none"
      /\ hid_call.stage = STAGE_SETUP =>
           /\ ~hid_call.set_report.called
           /\ IF SetReportLength < Len(hid.buf)
              THEN hid_call.ret.t = "view" /\ Len(hid_call.ret.b) = SetReportLength /\ hid_call.ret.b = SubSeq(hid.buf, 1, SetReportLength)
              ELSE hid_call.ret.t = "buffer" /\ hid_call.ret.b = hid.buf
      /\ hid_call.stage = STAGE_DATA =>
           /\ hid_call.ret.t = "True"
           /\ hid_call.set_report.called
           /\ IF SetReportLength < Len(hid.buf)
              THEN Len(hid_call.set_report.data) = SetReportLength /\ hid_call.set_report.data = SubSeq(hid.buf, 1, SetReportLength)
              ELSE hid_call.set_report.data = hid.buf

\* The spec's scenario at SETUP stage: wLength 3 into a longer buffer
\* gives a view of 3 bytes.
C23_Witness == SetReportCall /\ hid_call.stage = STAGE_SETUP /\ SetReportLength = 3 /\ Len(hid.buf) > 3 /\ hid_call.ret.t = "view" /\ Len(hid_call.ret.b) = 3

\* The endpoint addresses object i declared in desc_cfg.
OwnEps(i) == {objs[i].eps[j] : j \in 1..Len(objs[i].eps)}

\* C29: stall on an open interface object, for an endpoint address the
\* object owns, passes the request on to the low-level driver's stall and
\* raises nothing; on a closed object, or for an endpoint address the
\* object does not own, it raises RuntimeError and does not call the
\* low-level driver.
C29_StallForwardsOrRaises ==
    call.op = "stall" =>
      IF call.pre_open /\ call.ep \in OwnEps(call.itf)
      THEN call.exc = "none" /\ Cardinality(TraceEvs("usbd_stall")) = 1
      ELSE call.exc = "RuntimeError" /\ TraceEvs("usbd_stall") = {}

\* C30 as stated: handle_reset fires on every bus reset before the
\* pending transfers are cleared: every handle_reset of a reset finds the
\* entries of the endpoints that were pending at the reset still set.
C30_HooksSeePendingEntries ==
    call.op = "reset" =>
      /\ TraceEvs("handle_reset") # {}
      /\ \A j \in TraceEvs("handle_reset") : \A e \in call.pre_pending : Truthy(CbsGet(trace[j].cbs, e))

\* C30 (amended): handle_reset fires on every bus reset after the pending
\* transfers are cleared: every handle_reset of a reset finds the entries
\* of the endpoints that were pending at the reset already set to None,
\* and they stay so until _reset_cb returns.
C30_HooksSeeClearedEntries ==
    call.op = "reset" =>
      /\ TraceEvs("handle_reset") # {}
      /\ \A j \in TraceEvs("handle_reset") : \A e \in call.pre_pending : e \in DOMAIN trace[j].cbs /\ trace[j].cbs[e] = "None"
      /\ \A e \in call.pre_pending : ep_cbs[e] = "None"

\* A reset with a transfer held by the low-level driver and its entry
\* set, which the first handle_reset found cleared.
C30_Witness == call.op = "reset" /\ \E e \in call.pre_pending : call.pre_cbs[e] = "cb" /\ trace[1].ev = "handle_reset" /\ trace[1].cbs[e] = "None"

\* The positions of the calls of this name that init made on the
\* low-level driver.
UsbdCalls(name) == {j \in 1..Len(usbd.log) : usbd.log[j].call = name}

\* C32: init first deactivates the low-level driver, then builds the
\* descriptors, then makes exactly one config call, which hands over the
\* finished configuration descriptor and the string list, and last sets
\* the active state it was asked for; the driver is not active when the
\* descriptors are built nor when config is called.
C32_InactiveWhileBuilding ==
    kinds # <<>> =>
        /\ Len(usbd.log) = 4
        /\ usbd.log[1].call = "active" /\ ~usbd.log[1].value
        /\ usbd.log[2].call = "build" /\ ~usbd.log[2].was_active
        /\ UsbdCalls("config") = {3}
        /\ ~usbd.log[3].was_active /\ usbd.log[3].cfg = cfg_desc /\ usbd.log[3].strs = strs
        /\ usbd.log[4].call = "active" /\ usbd.active = usbd.log[4].value

\* init was called on an active driver with active=False.
C32_Witness == call.op = "init" /\ usbd.log[1].was_active /\ ~usbd.active /\ UsbdCalls("config") # {} /\ Len(kinds) >= 2

\* C33: a pack_into(fmt, offs, ...) that returns leaves the cursor at
\* max(previous cursor, offs + size of fmt) and changes no byte outside
\* [offs, offs + size), so patching the header at offset 0 below the
\* cursor leaves the cursor where it was; on the Descriptor without a
\* buffer, pack, pack_into and append write nothing and move the cursor
\* as on the one with a buffer.
C33_CursorAndDryRun ==
    [][dsc'.n = dsc.n + 1 =>
         /\ dsc'.last.op = "pack_into" =>
              /\ dsc'.real.o = Max(dsc.real.o, dsc'.last.offs + dsc'.last.size)
              /\ Len(dsc'.real.b) = Len(dsc.real.b)
              /\ \A i \in 1..Len(dsc.real.b) : (i <= dsc'.last.offs \/ i > dsc'.last.offs + dsc'.last.size) => dsc'.real.b[i] = dsc.real.b[i]
         /\ (dsc'.last.op = "pack_into" /\ dsc'.last.offs + dsc'.last.size <= dsc.real.o) => dsc'.real.o = dsc.real.o
         /\ dsc'.last.op \in {"pack", "pack_into", "append"} =>
              /\ dsc'.dry.b = <<>>
              /\ ~dsc'.dry.hasbuf
              /\ dsc'.dry.o - dsc.dry.o = dsc'.real.o - dsc.real.o
              /\ dsc'.dry.o = dsc'.real.o]_vars

\* The 9-byte header was patched at offset 0 after content was appended.
C33_Witness == dsc.last.op = "pack_into" /\ dsc.last.offs = 0 /\ dsc.last.size = STD_DESC_CONFIG_LEN /\ Len(dsc.real.b) = DescLen /\ dsc.real.o > STD_DESC_CONFIG_LEN + 1 /\ dsc.real.b[1] = STD_DESC_CONFIG_LEN /\ dsc.real.b[3] = DescLen /\ dsc.real.b[10] = 2 /\ dsc.dry.o = dsc.real.o

\* The last call was a class request at SETUP stage with this bRequest.
ClassSetup(bRequest) == hid_call.op = "control" /\ hid_call.stage = STAGE_SETUP /\ split_bmRequestType(hid_call.request[1])[2] = REQ_TYPE_CLASS /\ hid_call.request[2] = bRequest

\* wValue of the last request.
\* The interface object under the lower byte of the last control
\* request's wIndex, 0 if none: looked up in the interface table for a
\* device or interface recipient, in the endpoint table for an endpoint
\* recipient.
LowByteTarget ==
    IF Recipient \in {REQ_RECIPIENT_DEVICE, REQ_RECIPIENT_INTERFACE} THEN ItfsGet(itfs, call.ep % 256)
    ELSE IF Recipient = REQ_RECIPIENT_ENDPOINT THEN EpsGet(eps, call.ep % 256)
    ELSE 0

\* C35: a control request whose wIndex names, in its lower byte, a
\* registered interface (device and interface recipients) or an owned
\* endpoint address (endpoint recipient) is handed to that object's
\* handler for the recipient, whatever the upper byte of wIndex is.
C35_RoutedByLowByte ==
    (call.op = "control" /\ LowByteTarget # 0) =>
        /\ call.exc = "none"
        /\ Cardinality(HandlerCalls) = 1
        /\ \A j \in HandlerCalls : trace[j].ev = ControlHandler /\ trace[j].itf = LowByteTarget

\* C36: an endpoint's entry marks it pending only while the low-level
\* driver holds a transfer on it that it accepted and has not completed;
\* so after a submission the driver rejected, the endpoint is not pending
\* and a retry is not refused as pending.
C36_PendingOnlyWhileHeld ==
    \A e \in DOMAIN ep_cbs : Truthy(ep_cbs[e]) => (e \in DOMAIN inflight /\ Len(inflight[e]) >= 1)

\* C37: the completion event of a transfer that a bus reset cancelled,
\* arriving after the reset, invokes no callback and leaves the endpoint
\* not pending; and no handler invokes a completion callback more than
\* once: a completion event invokes it only when the endpoint's entry held
\* it, and a submit only when it gave one.
C37_CancelledNeverCalledBack ==
    /\ call.op = "late_xfer" => (TraceEvs("done_cb") = {} /\ ~Truthy(ep_cbs[call.ep]))
    /\ call.op \in {"xfer", "late_xfer"} => Cardinality(TraceEvs("done_cb")) <= (IF call.pre = "cb" THEN 1 ELSE 0)
    /\ call.op = "submit" => Cardinality(TraceEvs("done_cb")) <= (IF call.cb = "cb" THEN 1 ELSE 0)

\* C38: when the completion callback of a transfer submits the next
\* transfer on the same endpoint from inside the callback, the submit is
\* not refused as pending, and when the low-level driver accepts it the
\* endpoint is, after the transfer-complete handler returned, marked
\* pending with the callback of the nested submit, which the driver holds.
C38_NestedSubmitAccepted ==
    (call.op = "xfer_resubmit" /\ call.pre = "cb") =>
        /\ call.exc # "xfer_pending"
        /\ call.outcome = "accepted" =>
             /\ call.exc = "none"
             /\ ep_cbs[call.ep] = (IF call.cb = "cb" THEN "cb" ELSE "True")
             /\ inflight[call.ep] # <<>>
             /\ inflight[call.ep][Len(inflight[call.ep])] = call.cb

\* A completion whose callback ran and submitted the next transfer with a
\* callback of its own, accepted by the driver.
C38_Witness == call.op = "xfer_resubmit" /\ call.pre = "cb" /\ call.outcome = "accepted" /\ call.cb = "cb" /\ call.exc = "none" /\ TraceEvs("done_cb") # {} /\ ep_cbs[call.ep] = "cb" /\ inflight[call.ep] = <<"cb">>

\* C39: whatever hardware callbacks run between the steps of send_report,
\* the call lets no state error ("Not open", "xfer_pending") escape, and
\* when the interface was closed by the time of its last step it returns
\* False.
C39_SendReportNoStateError ==
    call.op = "send_report" => (call.exc \notin {"Not open", "xfer_pending"} /\ (~call.pre_open => call.ret = "False"))

HidWValue == hid_call.request[3] + 256 * hid_call.request[4]

\* C34: SET_IDLE at SETUP stage stores the high byte of wValue and
\* SET_PROTOCOL stores wValue; no other control request changes the
\* stored idle rate or protocol; GET_IDLE and GET_PROTOCOL at SETUP stage
\* return one byte, equal to the stored idle rate or protocol.
C34_IdleProtocolRoundTrip ==
    hid_call.op = "control" =>
        /\ hid.o.idle_rate = (IF ClassSetup(REQ_CONTROL_SET_IDLE) THEN HidWValue \div 256 ELSE hid_call.pre.o.idle_rate)
        /\ hid.o.protocol = (IF ClassSetup(REQ_CONTROL_SET_PROTOCOL) THEN HidWValue ELSE hid_call.pre.o.protocol)
        /\ (ClassSetup(REQ_CONTROL_GET_IDLE) /\ hid_call.pre.o.idle_rate # -1) =>
             (hid_call.exc = "none" /\ hid_call.ret = [t |-> "bytes", b |-> <<hid_call.pre.o.idle_rate>>])
        /\ ClassSetup(REQ_CONTROL_GET_PROTOCOL) =>
             (hid_call.exc = "none" /\ hid_call.ret = [t |-> "bytes", b |-> <<hid_call.pre.o.protocol>>])

\* ------------------------------------------------------------------------
\* Properties of the Buffer
\* ------------------------------------------------------------------------

\* C5: under any interleaving of one producer (pend_write, finish_write,
\* write) and one consumer (pend_read, finish_read, readinto), the bytes
\* the consumer took followed by the bytes waiting to be read are exactly
\* the bytes the producer committed, in the order it committed them: none
\* lost, none duplicated, none reordered.
C5_FifoIntegrity ==
    /\ readout \o Readable(buf) = written
    /\ Len(readout) = Len(written) - readable(buf)
    /\ ~buf.err

\* The consumer took part of the readable bytes while the producer had a
\* write in progress, after it had already taken some.
C5_Witness ==
    /\ buf_call.op = "finish_read"
    /\ buf_call.k >= 1
    /\ buf_call.k < buf_call.pre_n
    /\ prod.pc = "placed"
    /\ prod.k >= 1
    /\ Len(readout) >= 3

\* C6: finish_write(k) commits exactly the k bytes at the start of the
\* window: afterwards the readable region is what was readable when it
\* ran followed by those k bytes, and it grew by k, on the fast path and
\* on the slow path.
C6_FinishWriteCommits ==
    buf_call.op = "finish_write" =>
        /\ ~buf_call.err
        /\ Len(buf_call.placed) = buf_call.k
        /\ buf_call.post_readable = buf_call.pre_readable \o buf_call.placed
        /\ buf_call.post_n = buf_call.pre_n + buf_call.k

\* A slow-path commit of two bytes or more behind bytes still unread.
C6_Witness ==
    /\ buf_call.op = "finish_write"
    /\ buf_call.path = "slow"
    /\ buf_call.k >= 2
    /\ buf_call.pre_n >= 1

\* C24: in every state 0 <= _n <= _w <= capacity, so the pending write
\* window [_w, capacity) never overlaps the readable bytes [0, _n) and
\* readable() + writable() does not exceed the capacity; and when the
\* producer's last call was finish_write (it has no write in progress),
\* _w is the capacity again.
C24_RegionsOrdered ==
    /\ 0 <= buf.n /\ buf.n <= buf.w /\ buf.w <= Len(buf.b)
    /\ readable(buf) + writable(buf) <= Len(buf.b)
    /\ prod.pc = "idle" => buf.w = Len(buf.b)
    /\ ~buf.err

\* Readable bytes, a free gap and a pending window with bytes placed in it,
\* all non-empty at once.
C24_Witness == 0 < buf.n /\ buf.n < buf.w /\ buf.w < Len(buf.b) /\ prod.pc = "placed" /\ prod.k >= 1

\* The last call was write() or readinto() returning.
WriteReturned == (buf_call.op = "finish_write" /\ buf_call.want # -1) \/ buf_call.op = "write"

ReadintoReturned == (buf_call.op = "finish_read" /\ buf_call.want # -1) \/ buf_call.op = "readinto"

\* C25: write(data) returns min(len(data), free space), the free space
\* being what pend_write found when write() called it, and appends
\* exactly that prefix of data to the readable bytes; readinto(b) returns
\* min(len(b), readable bytes) and removes exactly those bytes from the
\* front; a write when there is no free space and a readinto when nothing
\* is readable return 0 and leave the readable bytes as they are.
C25_WriteReadintoCounts ==
    /\ prod.pc \in {"pended", "placed"} => prod.len = Len(buf.b) - prod.start /\ prod.start = buf.w
    /\ prod.pc = "placed" => prod.k = Min(prod.want, prod.len)
    /\ cons.pc = "copied" => cons.k = Min(cons.want, cons.len)
    /\ WriteReturned =>
         /\ ~buf_call.err
         /\ buf_call.k = Min(buf_call.want, buf_call.avail)
         /\ buf_call.placed = [i \in 1..buf_call.k |-> Len(written) - buf_call.k + i]
         /\ buf_call.post_readable = buf_call.pre_readable \o buf_call.placed
         /\ buf_call.avail = 0 => buf_call.k = 0 /\ buf_call.post_readable = buf_call.pre_readable
    /\ ReadintoReturned =>
         /\ ~buf_call.err
         /\ buf_call.k = Min(buf_call.want, buf_call.avail)
         /\ buf_call.placed = SubSeq(buf_call.pre_readable, 1, buf_call.k)
         /\ buf_call.post_readable = SubSeq(buf_call.pre_readable, buf_call.k + 1, buf_call.pre_n)
         /\ buf_call.avail = 0 => buf_call.k = 0 /\ buf_call.post_readable = buf_call.pre_readable

\* A short write: more data than free space, behind bytes still unread.
C25_Witness == buf_call.op = "finish_write" /\ buf_call.want > buf_call.avail /\ buf_call.k = buf_call.avail /\ buf_call.k >= 1 /\ buf_call.pre_n >= 1

\* C26: pend_write called again without a finish_write in between, with
\* the same argument, returns the same window and changes nothing in the
\* Buffer, also when the consumer has completed a read since the first
\* call.
C26_PendWriteIdempotent ==
    [][(prod.pc = "pended" /\ prod'.pc = "pended" /\ prod'.wmax = prod.wmax /\ cons' = cons)
         => (prod'.start = prod.start /\ prod'.len = prod.len /\ buf' = buf)]_vars

\* C27: the window pend_write(wmax) returns starts at the end of the
\* readable bytes (where it puts _w) and has length min(wmax, free space)
\* for every wmax >= 0; without wmax it covers all the free space.
C27_WindowCapped ==
    prod.pc = "pended" =>
      /\ prod.start = buf.w
      /\ prod.len = IF prod.wmax = -1 THEN Len(buf.b) - prod.start ELSE Min(prod.wmax, Len(buf.b) - prod.start)

\* C28: finish_read(k) with 0 < k <= readable() removes exactly the first
\* k readable bytes: readable() drops by k and the bytes that remain are
\* at the front in their order; finish_read(0) changes nothing; _w and the
\* bytes of the pending write window are as they were.
C28_FinishReadRemovesFront ==
    buf_call.op = "finish_read" =>
      /\ ~buf_call.err
      /\ buf_call.k <= buf_call.pre_n
      /\ buf_call.post_n = buf_call.pre_n - buf_call.k
      /\ buf_call.post_readable = SubSeq(buf_call.pre_readable, buf_call.k + 1, buf_call.pre_n)
      /\ buf_call.k = 0 => buf_call.post_readable = buf_call.pre_readable
      /\ buf_call.window_kept

\* A read of part of the readable bytes while the producer has bytes placed
\* in a pending window.
C28_Witness == buf_call.op = "finish_read" /\ buf_call.k >= 1 /\ buf_call.post_n >= 2 /\ prod.pc = "placed" /\ prod.k >= 1 /\ buf.w < Len(buf.b) /\ buf_call.window_kept

\* C31: the readable count _n changes only in a statement of finish_write
\* or finish_read that runs with interrupts disabled; each of the two
\* saves the interrupt state when it starts, keeps interrupts disabled
\* until it leaves, and leaves with the saved state restored, also when
\* its assertion failed; the write index _w changes only in a step of the
\* producer (pend_write or finish_write).
C31_IndicesGuarded ==
    [][/\ buf'.n # buf.n => (~irq /\ ~irq' /\ crit.pc \in {"assert", "loop"})
       /\ (crit.pc = "idle" /\ crit'.pc # "idle") => (crit'.ist = irq /\ ~irq')
       /\ (crit.pc # "idle" /\ crit'.pc # "idle") => (~irq' /\ crit'.ist = crit.ist)
       /\ (crit.pc # "idle" /\ crit'.pc = "idle") => irq' = crit.ist
       /\ buf'.w # buf.w => ((crit.pc # "idle" /\ crit.op = "finish_write") \/ (crit.pc = "idle" /\ prod'.pc = "pended" /\ cons' = cons))]_vars

\* A finish_read whose assertion failed has returned, and interrupts are
\* enabled again as they were before it.
C31_Witness == crit.pc = "idle" /\ crit.op = "finish_read" /\ crit.exc /\ irq /\ buf.n >= 1 /\ buf.w < Len(buf.b)


\* The indices and the bytes of the buffer are as they were when the
\* finish_write or finish_read in progress was entered.
BufferAsOnEntry == buf.n = crit.entry.n /\ buf.w = crit.entry.w /\ buf.b = crit.entry.b

\* C40: a finish_write called directly with a count larger than the
\* window that was pended, or a finish_read called with a count larger
\* than the bytes readable, has failed its assertion by the time it
\* reaches its finally clause and has left the indices and the contents
\* of the buffer unchanged.
C40_OversizeFinishFails ==
    crit.pc = "finally" =>
        /\ (crit.op = "finish_write" /\ prod.pc = "pended" /\ crit.count > prod.len) => (crit.exc /\ BufferAsOnEntry)
        /\ (crit.op = "finish_read" /\ crit.count > crit.entry.n) => (crit.exc /\ BufferAsOnEntry)

====
